---- MODULE Spec2Model ----
(***************************************************************************)
(* Internal-linking automation: the audit engine (phase 3), the semantic   *)
(* opportunity matcher (phase 4) and the commercial anchor rule engine     *)
(* (phase 5).                                                              *)
(*                                                                         *)
(* A Python str is a sequence of one-character strings, so that strip,     *)
(* rstrip, lower, split, urlparse and the regular expressions are computed *)
(* on the characters, as the code computes them.  A NaN cell of a pandas   *)
(* DataFrame is the value NaN below.                                       *)
(***************************************************************************)
EXTENDS Integers, Sequences, FiniteSets, TLC

VARIABLES
    pc,                 \* position of the run
    error,              \* the exception that ended the run, "" when none
    meta_columns,       \* the column names of the page DataFrame
    page_df,            \* rows of the page DataFrame (audit's input)
    crawled_urls,       \* the set given to the audit
    raw_links_list,     \* list of {source, dest, anchor}
    audited_df,         \* rows of the audited DataFrame
    blog_df,            \* rows of the blog DataFrame
    traffic_col,        \* the traffic column of blog_df, "None" when it has none
    existing_links,     \* set of (source, dest), normalized
    target_vectors,     \* insertion-ordered dict: normalized url -> intent vector
    page_embedding_cache,
    sentence_embedding_cache,
    model_vectors,      \* what the embedding model answered: text -> vector
    encode_calls,       \* the number of model.encode calls: text -> count
    ri, ti, bi, si,     \* positions of the loops over rows, targets, blogs, sentences
    sentences,          \* the qualifying sentences of the current blog post
    source_traffic,
    best_score,
    opportunities,      \* the rows appended so far
    li,                 \* position of the loop over the links (phase 5)
    rows,               \* the suggestions appended so far
    anchor_report,      \* the anchor optimization report
    actionable_df,      \* the rows of the actionable opportunities sheet
    url_arg,            \* the argument of a call of normalize_url
    url_key             \* what the call returned

inputVars == <<meta_columns, page_df, crawled_urls, raw_links_list>>

embedVars == <<target_vectors, page_embedding_cache, sentence_embedding_cache,
               model_vectors, encode_calls>>

loopVars == <<ri, ti, bi, si, sentences, source_traffic, best_score>>

phase4Vars == <<blog_df, traffic_col, existing_links, embedVars, loopVars, opportunities>>

keyVars == <<url_arg, url_key>>

phase5Vars == <<li, rows, anchor_report, actionable_df, keyVars>>

vars == <<pc, error, inputVars, audited_df, phase4Vars, phase5Vars>>

----------------------------------------------------------------------------
(* Strings                                                                 *)

\* a missing cell (float NaN / None), which is not a str
NaN == <<"float:nan">>

UpperChars == <<"A","B","C","D","E","F","G","H","I","J","K","L","M",
                "N","O","P","Q","R","S","T","U","V","W","X","Y","Z">>
LowerChars == <<"a","b","c","d","e","f","g","h","i","j","k","l","m",
                "n","o","p","q","r","s","t","u","v","w","x","y","z">>

\* the lower-case letter of every upper-case letter
ToLower ==
    [c \in {UpperChars[i] : i \in DOMAIN UpperChars} |->
        LowerChars[CHOOSE i \in DOMAIN UpperChars : UpperChars[i] = c]]

\* str.lower() on one character
LowerChar(c) == IF c \in DOMAIN ToLower THEN ToLower[c] ELSE c

\* str.lower()
Lower(s) == [i \in DOMAIN s |-> LowerChar(s[i])]

\* the whitespace characters of str.strip(), str.split() and the regex \s
IsSpace(c) == c \in {" ", "\t", "\n"}

RECURSIVE LStrip(_)
\* str.lstrip()
LStrip(s) == IF s # << >> /\ IsSpace(Head(s)) THEN LStrip(Tail(s)) ELSE s

RECURSIVE RStrip(_)
\* str.rstrip()
RStrip(s) ==
    IF s # << >> /\ IsSpace(s[Len(s)]) THEN RStrip(SubSeq(s, 1, Len(s) - 1)) ELSE s

\* str.strip()
Strip(s) == RStrip(LStrip(s))

RECURSIVE RStripSlash(_)
\* str.rstrip("/"): every trailing slash goes
RStripSlash(s) ==
    IF s # << >> /\ s[Len(s)] = "/" THEN RStripSlash(SubSeq(s, 1, Len(s) - 1)) ELSE s

RECURSIVE LStripSlash(_)
\* str.lstrip("/")
LStripSlash(s) == IF s # << >> /\ Head(s) = "/" THEN LStripSlash(Tail(s)) ELSE s

\* s.startswith(p)
StartsWith(s, p) == Len(p) <= Len(s) /\ SubSeq(s, 1, Len(p)) = p

\* s.endswith(p)
EndsWith(s, p) == Len(p) <= Len(s) /\ SubSeq(s, Len(s) - Len(p) + 1, Len(s)) = p

\* p in s
Contains(s, p) ==
    \E i \in 0..(Len(s) - Len(p)) : SubSeq(s, i + 1, i + Len(p)) = p

\* len(s.split()): the number of maximal runs of non-whitespace characters
WordCount(s) ==
    Cardinality({i \in DOMAIN s : ~IsSpace(s[i]) /\ (i = 1 \/ IsSpace(s[i - 1]))})

\* s.count(c)
CountChar(s, c) == Cardinality({i \in DOMAIN s : s[i] = c})

RECURSIVE SumOver(_, _)
\* sum(f[j] for j in S)
SumOver(f, S) ==
    IF S = {} THEN 0
    ELSE LET j == CHOOSE x \in S : TRUE IN f[j] + SumOver(f, S \ {j})

----------------------------------------------------------------------------
(* Phase 3: audit (phase_3_audit.py)                                       *)

GENERIC_ANCHORS ==
    { <<"c","l","i","c","k"," ","h","e","r","e">>, <<"r","e","a","d"," ","m","o","r","e">>, <<"l","e","a","r","n"," ","m","o","r","e">>, <<"m","o","r","e">>, <<"h","e","r","e">> }

is_generic_anchor(anchor) ==
    IF anchor = NaN THEN FALSE ELSE Lower(Strip(anchor)) \in GENERIC_ANCHORS

\* links_df.groupby("dest").size(), one count per link record
receiving_counts_per_pair(links, url) ==
    Cardinality({<<links[j].source, links[j].dest>> : j \in {k \in DOMAIN links : links[k].dest = url}})

\* links_df.groupby("dest").size() merged on url, NaN filled with 0
receiving_counts(links, url) ==
    Cardinality({j \in DOMAIN links : links[j].dest = url})

\* source_scores: url -> priority_score, the last row of a url wins (to_dict)
source_scores_get(pages, src) ==
    IF \E i \in DOMAIN pages : pages[i].url = src
    THEN LET last == CHOOSE i \in DOMAIN pages :
                         /\ pages[i].url = src
                         /\ \A k \in DOMAIN pages : pages[k].url = src => k <= i
         IN pages[last].priority_score
    ELSE 0

equity_for_url(pages, links, url) ==
    SumOver([j \in DOMAIN links |-> source_scores_get(pages, links[j].source)],
            {j \in DOMAIN links : links[j].dest = url})

\* the dest values of the links whose anchor is generic
generic_anchor_targets(links) ==
    {links[j].dest : j \in {k \in DOMAIN links : is_generic_anchor(links[k].anchor)}}

gap_status_underlinked_first(row) ==
    IF row.priority_tier \in {"A", "B"} /\ row.receiving_links = 0
    THEN "High: Under-Linked"
    ELSE IF row.is_orphan THEN "CRITICAL: Orphan Page"
    ELSE IF row.priority_tier \in {"A", "B"} /\ row.has_generic_anchors
    THEN "Medium: Poor Anchors"
    ELSE "Healthy"

gap_status_tier_a_only(row) ==
    IF row.is_orphan THEN "CRITICAL: Orphan Page"
    ELSE IF row.priority_tier = "A" /\ row.receiving_links = 0
    THEN "High: Under-Linked"
    ELSE IF row.priority_tier = "A" /\ row.has_generic_anchors
    THEN "Medium: Poor Anchors"
    ELSE "Healthy"

gap_status(row) ==
    IF row.is_orphan THEN "CRITICAL: Orphan Page"
    ELSE IF row.priority_tier \in {"A", "B"} /\ row.receiving_links = 0
    THEN "High: Under-Linked"
    ELSE IF row.priority_tier \in {"A", "B"} /\ row.has_generic_anchors
    THEN "Medium: Poor Anchors"
    ELSE "Healthy"

\* a page row with the audit's columns
AuditedRow(row, orphan, receiving, equity, generic, status) ==
    [url |-> row.url, title |-> row.title, h1 |-> row.h1,
     meta_description |-> row.meta_description,
     best_anchor_text |-> row.best_anchor_text,
     priority_tier |-> row.priority_tier, priority_score |-> row.priority_score,
     is_orphan |-> orphan, receiving_links |-> receiving,
     link_equity_score |-> equity, has_generic_anchors |-> generic,
     gap_status |-> status]

\* the rows the audit computes when the link list is not empty
AuditLinkedRow(pages, crawled, links, i) ==
    LET row      == pages[i]
        orphan   == row.url \notin crawled
        n        == receiving_counts(links, row.url)
        equity   == equity_for_url(pages, links, row.url)
        generic  == row.url \in generic_anchor_targets(links)
        partial  == AuditedRow(row, orphan, n, equity, generic, "")
    IN AuditedRow(row, orphan, n, equity, generic, gap_status(partial))

audit_without_empty_branch(pages, crawled, links) ==
    [i \in DOMAIN pages |-> AuditLinkedRow(pages, crawled, links, i)]

audit_internal_links(pages, crawled, links) ==
    IF links = << >>
    THEN [i \in DOMAIN pages |->
            AuditedRow(pages[i], pages[i].url \notin crawled, 0, 0, FALSE,
                       "No internal links found")]
    ELSE [i \in DOMAIN pages |-> AuditLinkedRow(pages, crawled, links, i)]

\* audit_internal_links as one step of the run
AuditInternalLinks ==
    /\ pc = "audit"
    /\ IF ~({"priority_tier", "priority_score"} \subseteq meta_columns)
       THEN /\ pc' = "raised"
            /\ error' = "ValueError"
            /\ UNCHANGED audited_df
       ELSE /\ pc' = "audited"
            /\ audited_df' = audit_internal_links(page_df, crawled_urls, raw_links_list)
            /\ UNCHANGED error
    /\ UNCHANGED <<inputVars, phase4Vars, phase5Vars>>


----------------------------------------------------------------------------
(* URLs: urllib.parse.urlparse and ParseResult.geturl, on the characters   *)
(* the inputs are made of (no ";", no control characters)                  *)

Letters == {LowerChars[i] : i \in DOMAIN LowerChars} \cup {UpperChars[i] : i \in DOMAIN UpperChars}
Digits  == {"0","1","2","3","4","5","6","7","8","9"}

\* urllib.parse.scheme_chars
SchemeChars == Letters \cup Digits \cup {"+", "-", "."}

\* s.find(c): the first index of a character of set C in s, counted from 1;
\* Len(s) + 1 when there is none
FindFirst(s, C) ==
    IF \E i \in DOMAIN s : s[i] \in C
    THEN CHOOSE i \in DOMAIN s : s[i] \in C /\ \A k \in 1..(i - 1) : s[k] \notin C
    ELSE Len(s) + 1

\* the part of s before, from and after the first character of set C
Before(s, C) == SubSeq(s, 1, FindFirst(s, C) - 1)
From(s, C)   == SubSeq(s, FindFirst(s, C), Len(s))
After(s, C)  == SubSeq(s, FindFirst(s, C) + 1, Len(s))

\* urlsplit: u starts with a scheme and a colon
HasScheme(u) ==
    LET s == Before(u, {":"})
    IN /\ s # u
       /\ s # << >>
       /\ s[1] \in Letters
       /\ \A k \in DOMAIN s : s[k] \in SchemeChars

\* urlsplit: netloc, path, query and fragment of what follows the scheme
UrlParts(scheme, rest) ==
    LET hasNet == StartsWith(rest, <<"/", "/">>)
        r2     == IF hasNet THEN From(SubSeq(rest, 3, Len(rest)), {"/", "?", "#"}) ELSE rest
    IN [scheme   |-> scheme,
        netloc   |-> IF hasNet THEN Before(SubSeq(rest, 3, Len(rest)), {"/", "?", "#"}) ELSE << >>,
        path     |-> Before(Before(r2, {"#"}), {"?"}),
        query    |-> After(Before(r2, {"#"}), {"?"}),
        fragment |-> After(r2, {"#"})]

\* urlsplit: (scheme, netloc, path, query, fragment); leading blanks are dropped
UrlParse(url) ==
    IF HasScheme(LStrip(url))
    THEN UrlParts(Lower(Before(LStrip(url), {":"})), After(LStrip(url), {":"}))
    ELSE UrlParts(<< >>, LStrip(url))

\* urllib.parse.uses_netloc, the schemes the inputs can carry
UsesNetloc == { <<"h","t","t","p">>, <<"h","t","t","p","s">>, <<"f","t","p">> }

\* ParseResult.geturl() (urlunsplit)
GetUrl(p) ==
    LET withNet == \/ p.netloc # << >>
                   \/ (p.scheme \in UsesNetloc /\ ~StartsWith(p.path, <<"/", "/">>))
        path1   == IF withNet /\ p.path # << >> /\ Head(p.path) # "/"
                   THEN <<"/">> \o p.path ELSE p.path
        u1      == IF withNet THEN <<"/", "/">> \o p.netloc \o path1 ELSE p.path
        u2      == IF p.scheme # << >> THEN p.scheme \o <<":">> \o u1 ELSE u1
        u3      == IF p.query # << >> THEN u2 \o <<"?">> \o p.query ELSE u2
    IN IF p.fragment # << >> THEN u3 \o <<"#">> \o p.fragment ELSE u3

----------------------------------------------------------------------------
(* Phase 4: helpers (phase_4_opportunities.py)                             *)

\* similarities are kept in units of 1/10000
MIN_SENTENCE_WORDS == 6
PAGE_SIMILARITY_FLOOR == 5000
SENTENCE_SIMILARITY_FLOOR == 6000

\* str(x) of a cell
Str(x) == IF x = NaN THEN <<"n","a","n">> ELSE x

normalize_url(u) == RStripSlash(Strip(IF u = NaN THEN << >> ELSE u))

SentenceEnd == {".", "!", "?"}

RECURSIVE ReSplitSentences(_)
\* re.split(r"(?<=[.!?])\s+", text)
ReSplitSentences(s) ==
    IF \E i \in 2..Len(s) : IsSpace(s[i]) /\ s[i - 1] \in SentenceEnd
    THEN LET i == CHOOSE k \in 2..Len(s) :
                      /\ IsSpace(s[k]) /\ s[k - 1] \in SentenceEnd
                      /\ \A m \in 2..(k - 1) : ~(IsSpace(s[m]) /\ s[m - 1] \in SentenceEnd)
         IN <<SubSeq(s, 1, i - 1)>> \o ReSplitSentences(LStrip(SubSeq(s, i, Len(s))))
    ELSE <<s>>

RECURSIVE KeepLongSentences(_)
\* [s.strip() for s in sentences if len(s.split()) >= MIN_SENTENCE_WORDS]
KeepLongSentences(ss) ==
    IF ss = << >> THEN << >>
    ELSE IF WordCount(Head(ss)) >= MIN_SENTENCE_WORDS
         THEN <<Strip(Head(ss))>> \o KeepLongSentences(Tail(ss))
         ELSE KeepLongSentences(Tail(ss))

split_into_sentences(text) ==
    IF text = NaN THEN << >> ELSE KeepLongSentences(ReSplitSentences(text))

\* p.split("/", 1)[0]
FirstSegment(p) == SubSeq(p, 1, FindFirst(p, {"/"}) - 1)

detect_language_from_url(url) ==
    LET path  == Lower(UrlParse(url).path)
        p     == RStripSlash(LStripSlash(path))
        first == FirstSegment(p)
    IN IF p = << >> THEN "none"
       ELSE IF first = <<"d","e">> \/ p = <<"d","e">> THEN "de"
       ELSE IF first = <<"e","n">> \/ p = <<"e","n">> THEN "en"
       ELSE "none"

is_homepage(url) == CountChar(RStripSlash(url), "/") <= 2

\* None is the value of a missing result
None == <<"None">>

get_best_anchor(target_row) ==
    LET anchor == Strip(Str(target_row.best_anchor_text))
    IN IF anchor = << >> \/ Lower(anchor) = <<"n","/","a">> THEN None ELSE anchor

\* " ".join(parts)
JoinSpace(a, b) == a \o <<" ">> \o b

TokenChars == {LowerChars[i] : i \in DOMAIN LowerChars} \cup Digits

\* the end of the run of token characters that starts at i
RunEnd(text, i) ==
    CHOOSE j \in i..Len(text) :
        /\ \A k \in i..j : text[k] \in TokenChars
        /\ (j = Len(text) \/ text[j + 1] \notin TokenChars)

\* re.findall(r"[a-z0-9]{4,}", text): the maximal runs of at least 4 characters
FindTokens(text) ==
    { SubSeq(text, i, RunEnd(text, i)) :
        i \in { k \in DOMAIN text :
                  /\ text[k] \in TokenChars
                  /\ (k = 1 \/ text[k - 1] \notin TokenChars)
                  /\ RunEnd(text, k) - k >= 3 } }

build_topic_tokens(target_row) ==
    FindTokens(Lower(JoinSpace(JoinSpace(JoinSpace(Str(target_row.title), Str(target_row.h1)),
                                         Str(target_row.meta_description)),
                               Str(target_row.best_anchor_text))))

\* the text whose embedding is the target's intent vector
intent_text(row) ==
    LET t == Strip(JoinSpace(JoinSpace(Str(row.title), Str(row.h1)), Str(row.meta_description)))
    IN IF t # << >> THEN t ELSE Str(row.url)

----------------------------------------------------------------------------
(* Phase 4: the embedding model and cosine similarity                      *)

\* SentenceTransformer.encode is a function of the text alone; what it
\* returns for a text is not known: one of three unit vectors
Vectors == {"v1", "v2", "v3"}

\* sklearn cosine_similarity of two of those vectors, in 1/10000
cosine_similarity(v, w) ==
    IF v = w THEN 10000
    ELSE IF {v, w} = {"v1", "v2"} THEN 6000
    ELSE IF {v, w} = {"v2", "v3"} THEN 7506
    ELSE 3996

\* round(x, 3), in 1/1000
Round3(x) == (x + 5) \div 10

\* what model.encode(text) returns when v is the model's answer for a text it
\* has not seen yet
model_encode(memo, text, v) == IF text \in DOMAIN memo THEN memo[text] ELSE v

\* the model's answers, with the one for text
Memoize(memo, text, vec) == IF text \in DOMAIN memo THEN memo ELSE (text :> vec) @@ memo

\* a dict with d[key] = val
DictSet(d, key, val) == (key :> val) @@ d

\* the number of encode calls so far, per text, with one more for text
CountCall(calls, text) ==
    IF text \in DOMAIN calls THEN [calls EXCEPT ![text] = @ + 1]
    ELSE (text :> 1) @@ calls

\* an insertion-ordered dict as a sequence of (key, val): d[key] = val
OrderedSet(d, key, val) ==
    IF \E i \in DOMAIN d : d[i].key = key
    THEN [i \in DOMAIN d |-> IF d[i].key = key THEN [key |-> key, val |-> val] ELSE d[i]]
    ELSE Append(d, [key |-> key, val |-> val])

----------------------------------------------------------------------------
(* Phase 4: run_phase_4_opportunities and find_internal_link_opportunities *)

\* the (source, dest) pairs of the raw links, normalized, both ends non-empty
build_existing_links(links) ==
    { pr \in { <<normalize_url(links[j].source), normalize_url(links[j].dest)>> :
                   j \in DOMAIN links } :
        pr[1] # << >> /\ pr[2] # << >> }

\* dict.get's None, where a row is expected
NoneRow == [none |-> TRUE]

\* audited_lookup.get(url): the last row whose normalized url is url
audited_lookup_get(df, url) ==
    IF \E i \in DOMAIN df : df[i].url # NaN /\ normalize_url(df[i].url) = url
    THEN LET last == CHOOSE i \in DOMAIN df :
                         /\ df[i].url # NaN /\ normalize_url(df[i].url) = url
                         /\ \A k \in DOMAIN df :
                                (df[k].url # NaN /\ normalize_url(df[k].url) = url) => k <= i
         IN df[last]
    ELSE NoneRow

\* the cell of the blog loader's non_branded_traffic column:
\* to_numeric(errors="coerce").fillna(0).astype(int)
load_traffic_cell(cell) == IF cell.kind = "int" THEN cell ELSE [kind |-> "int", val |-> 0]

\* int(x) raises ValueError on a str that is no number
IntRaises(cell) == cell.kind = "str"

\* the position after blog bi of target ti: the next blog, the next target or the end
AfterPair(t, b) ==
    IF b < Len(blog_df) THEN [pc |-> "pair", ti |-> t, bi |-> b + 1]
    ELSE IF t < Len(target_vectors) THEN [pc |-> "target", ti |-> t + 1, bi |-> 1]
    ELSE [pc |-> "done", ti |-> t, bi |-> 1]

\* the position after target ti was skipped
AfterTarget(t) ==
    IF t < Len(target_vectors) THEN [pc |-> "target", ti |-> t + 1, bi |-> 1]
    ELSE [pc |-> "done", ti |-> t, bi |-> 1]

\* run_phase_4_opportunities up to the call of build_target_embeddings
RunPhase4Opportunities ==
    /\ pc = "phase4"
    /\ IF "best_anchor_text" \notin meta_columns
       THEN /\ pc' = "raised"
            /\ error' = "AssertionError"
            /\ UNCHANGED existing_links
       ELSE /\ pc' = "targets"
            /\ existing_links' = build_existing_links(raw_links_list)
            /\ UNCHANGED error
    /\ UNCHANGED <<phase5Vars, inputVars, audited_df, blog_df, traffic_col, embedVars, loopVars, opportunities>>

\* build_target_embeddings: one row of audited_df
EncodeTarget ==
    /\ pc = "targets"
    /\ ri <= Len(audited_df)
    /\ LET row == audited_df[ri] IN
       \/ /\ row.priority_tier # "A"
          /\ UNCHANGED <<target_vectors, model_vectors, encode_calls>>
       \/ /\ row.priority_tier = "A"
          /\ \E v \in Vectors :
                LET text == intent_text(row)
                    vec  == model_encode(model_vectors, text, v)
                IN /\ v = vec
                   /\ encode_calls' = CountCall(encode_calls, text)
                   /\ model_vectors' = Memoize(model_vectors, text, vec)
                   /\ target_vectors' = OrderedSet(target_vectors, normalize_url(row.url), vec)
    /\ ri' = ri + 1
    /\ UNCHANGED <<phase5Vars, pc, error, inputVars, audited_df, blog_df, traffic_col, existing_links,
                   page_embedding_cache, sentence_embedding_cache,
                   ti, bi, si, sentences, source_traffic, best_score, opportunities>>

\* the loop over target_vectors starts
StartTargets ==
    /\ pc = "targets"
    /\ ri > Len(audited_df)
    /\ pc' = IF target_vectors = << >> \/ blog_df = << >> THEN "done" ELSE "target"
    /\ UNCHANGED <<phase5Vars, error, inputVars, audited_df, blog_df, traffic_col, existing_links,
                   embedVars, loopVars, opportunities>>

\* the hard rules on the target let it through
target_is_eligible(target_url) ==
    LET target_row == audited_lookup_get(audited_df, target_url)
    IN /\ target_row # NoneRow
       /\ get_best_anchor(target_row) # None
       /\ ~is_homepage(target_url)

\* lines 166-181: the head of the loop over the targets
TargetHead ==
    /\ pc = "target"
    /\ LET target_url == target_vectors[ti].key
           nxt == IF target_is_eligible(target_url)
                  THEN [pc |-> "pair", ti |-> ti, bi |-> 1]
                  ELSE AfterTarget(ti)
       IN /\ pc' = nxt.pc
          /\ ti' = nxt.ti
          /\ bi' = nxt.bi
    /\ UNCHANGED <<phase5Vars, error, inputVars, audited_df, blog_df, traffic_col, existing_links,
                   embedVars, ri, si, sentences, source_traffic, best_score, opportunities>>

is_self_or_existing_self_only(source_url, target_url, links) ==
    source_url = target_url

\* source and target are the same page, or the pair is a known link
is_self_or_existing(source_url, target_url, links) ==
    source_url = target_url \/ <<source_url, target_url>> \in links

is_cross_language_never(source_url, target_url) == FALSE

\* source and target are in different language buckets
is_cross_language(source_url, target_url) ==
    detect_language_from_url(source_url) # detect_language_from_url(target_url)

\* lines 184-204: the filters that need no embedding reject the blog post
pair_is_filtered(blog, target_url) ==
    LET source_url == normalize_url(blog.url)
        content    == Str(blog.content)
    IN \/ source_url = << >>
       \/ is_self_or_existing(source_url, target_url, existing_links)
       \/ is_cross_language(source_url, target_url)
       \/ content = << >>
       \/ Lower(content) = <<"n","a","n">>

\* lines 183-214: one blog post against the target, up to the sentence split
PairFilter ==
    /\ pc = "pair"
    /\ LET blog       == blog_df[bi]
           target_url == target_vectors[ti].key
           cell       == blog.traffic
           sents      == split_into_sentences(Str(blog.content))
           nxt        == AfterPair(ti, bi)
       IN IF pair_is_filtered(blog, target_url)
          THEN /\ pc' = nxt.pc /\ ti' = nxt.ti /\ bi' = nxt.bi
               /\ UNCHANGED <<error, sentences, source_traffic>>
          ELSE IF traffic_col # "None" /\ cell.kind # "nan" /\ IntRaises(cell)
          THEN /\ pc' = "raised"
               /\ error' = "ValueError"
               /\ UNCHANGED <<ti, bi, sentences, source_traffic>>
          ELSE IF sents = << >>
          THEN /\ pc' = nxt.pc /\ ti' = nxt.ti /\ bi' = nxt.bi
               /\ UNCHANGED <<error, sentences, source_traffic>>
          ELSE /\ pc' = "page"
               /\ sentences' = sents
               /\ source_traffic' = IF traffic_col # "None" /\ cell.kind # "nan"
                                    THEN cell.val ELSE 0
               /\ UNCHANGED <<error, ti, bi>>
    /\ UNCHANGED <<phase5Vars, inputVars, audited_df, blog_df, traffic_col, existing_links,
                   embedVars, ri, si, best_score, opportunities>>

\* the key of the page embedding cache
page_cache_key(blog) == normalize_url(blog.url)

\* lines 216-225: the page embedding and the page similarity floor
PageEmbed ==
    /\ pc = "page"
    /\ \E v \in Vectors :
          LET blog    == blog_df[bi]
              key     == page_cache_key(blog)
              content == Str(blog.content)
              cached  == key \in DOMAIN page_embedding_cache
              vec     == IF cached THEN page_embedding_cache[key]
                         ELSE model_encode(model_vectors, content, v)
              nxt     == AfterPair(ti, bi)
          IN /\ v = vec
             /\ IF cached
                THEN UNCHANGED <<page_embedding_cache, encode_calls, model_vectors>>
                ELSE /\ page_embedding_cache' = DictSet(page_embedding_cache, key, vec)
                     /\ encode_calls' = CountCall(encode_calls, content)
                     /\ model_vectors' = Memoize(model_vectors, content, vec)
             /\ IF cosine_similarity(vec, target_vectors[ti].val) < PAGE_SIMILARITY_FLOOR
                THEN /\ pc' = nxt.pc /\ ti' = nxt.ti /\ bi' = nxt.bi
                     /\ sentences' = << >>
                     /\ source_traffic' = 0
                     /\ UNCHANGED <<si, best_score>>
                ELSE /\ pc' = "sentence"
                     /\ si' = 1
                     /\ best_score' = 0
                     /\ UNCHANGED <<ti, bi, sentences, source_traffic>>
    /\ UNCHANGED <<phase5Vars, error, inputVars, audited_df, blog_df, traffic_col, existing_links,
                   target_vectors, sentence_embedding_cache, ri, opportunities>>

\* the sentence counts for the target: similar enough and on topic
sentence_qualifies(sim, sentence, topic_tokens) ==
    /\ sim >= SENTENCE_SIMILARITY_FLOOR
    /\ \E tok \in topic_tokens : Contains(Lower(sentence), tok)

\* lines 229-242: one sentence of the blog post
SentenceStep ==
    /\ pc = "sentence"
    /\ \E v \in Vectors :
          LET sentence == sentences[si]
              cached   == sentence \in DOMAIN sentence_embedding_cache
              vec      == IF cached THEN sentence_embedding_cache[sentence]
                          ELSE model_encode(model_vectors, sentence, v)
              sim      == cosine_similarity(vec, target_vectors[ti].val)
              tokens   == build_topic_tokens(audited_lookup_get(audited_df, target_vectors[ti].key))
          IN /\ v = vec
             /\ IF cached
                THEN UNCHANGED <<sentence_embedding_cache, encode_calls, model_vectors>>
                ELSE /\ sentence_embedding_cache' = DictSet(sentence_embedding_cache, sentence, vec)
                     /\ encode_calls' = CountCall(encode_calls, sentence)
                     /\ model_vectors' = Memoize(model_vectors, sentence, vec)
             /\ best_score' = IF sentence_qualifies(sim, sentence, tokens) /\ sim > best_score
                              THEN sim ELSE best_score
    /\ IF si < Len(sentences)
       THEN si' = si + 1 /\ pc' = "sentence"
       ELSE si' = 1 /\ pc' = "emit"
    /\ UNCHANGED <<phase5Vars, error, inputVars, audited_df, blog_df, traffic_col, existing_links,
                   target_vectors, page_embedding_cache, ri, ti, bi,
                   sentences, source_traffic, opportunities>>

\* lines 244-253: the opportunity, when a sentence qualified
Emit ==
    /\ pc = "emit"
    /\ LET nxt        == AfterPair(ti, bi)
           target_url == target_vectors[ti].key
       IN /\ pc' = nxt.pc /\ ti' = nxt.ti /\ bi' = nxt.bi
          /\ opportunities' =
                IF best_score = 0 THEN opportunities
                ELSE Append(opportunities,
                        [source_url |-> normalize_url(blog_df[bi].url),
                         target_url |-> target_url,
                         suggested_anchor |->
                             get_best_anchor(audited_lookup_get(audited_df, target_url)),
                         source_non_branded_traffic |-> source_traffic,
                         confidence |-> Round3(best_score)])
    /\ sentences' = << >>
    /\ source_traffic' = 0
    /\ best_score' = 0
    /\ UNCHANGED <<phase5Vars, error, inputVars, audited_df, blog_df, traffic_col, existing_links,
                   embedVars, ri, si>>

----------------------------------------------------------------------------
(* Regular expressions (re.search, re.match), as trees:                    *)
(*   lit   a literal string             cls  a character class, min..max   *)
(*   seq   one part after the other     alt  one of the alternatives       *)
(*   wb    \b      bol  ^      eol  $                                      *)
(* ReEnds gives every offset a match of the tree from offset i can end at, *)
(* which is what backtracking explores.                                    *)

Lit(s)            == [t |-> "lit", s |-> s]
Cls(c, lo, hi)    == [t |-> "cls", c |-> c, lo |-> lo, hi |-> hi]
SeqOf(parts)      == [t |-> "seq", parts |-> parts]
AltOf(alts)       == [t |-> "alt", alts |-> alts]
WB                == [t |-> "wb"]
BOL               == [t |-> "bol"]
EOL               == [t |-> "eol"]
Unbounded         == -1
\* x?
Opt(x)            == AltOf(<<x, SeqOf(<< >>)>>)
\* \s+ , \s* , .*
Spaces1           == Cls("space", 1, Unbounded)
Spaces0           == Cls("space", 0, Unbounded)
AnyStar           == Cls("any", 0, Unbounded)

\* \w of a str pattern: letters (of any script), digits and "_"
WordChars == Letters \cup Digits \cup {"_", "&uuml;", "&auml;", "&ouml;", "&szlig;"}

InClass(c, ch) ==
    CASE c = "space"   -> IsSpace(ch)
      [] c = "digit"   -> ch \in Digits
      [] c = "any"     -> ch # "\n"
      [] c = "dash_sp" -> ch = "-" \/ IsSpace(ch)
      [] c = "datesep" -> ch \in {".", "/", "-"}

\* \b at offset i: exactly one of the neighbours is a word character
AtWordBoundary(s, i) ==
    LET before == i >= 1 /\ s[i] \in WordChars
        after  == i < Len(s) /\ s[i + 1] \in WordChars
    IN before # after

RECURSIVE ReEnds(_, _, _, _)
RECURSIVE ReSeqEnds(_, _, _, _)

\* the offsets where a match of re that starts at offset i of s can end;
\* ic is the IGNORECASE flag
ReEnds(re, s, i, ic) ==
    CASE re.t = "lit" ->
            IF /\ i + Len(re.s) <= Len(s)
               /\ \A k \in DOMAIN re.s :
                      \/ s[i + k] = re.s[k]
                      \/ (ic /\ LowerChar(s[i + k]) = LowerChar(re.s[k]))
            THEN {i + Len(re.s)} ELSE {}
      [] re.t = "cls" ->
            { j \in (i + re.lo)..(IF re.hi = Unbounded \/ i + re.hi > Len(s)
                                  THEN Len(s) ELSE i + re.hi) :
                  \A k \in (i + 1)..j : InClass(re.c, s[k]) }
      [] re.t = "wb"  -> IF AtWordBoundary(s, i) THEN {i} ELSE {}
      [] re.t = "bol" -> IF i = 0 THEN {i} ELSE {}
      [] re.t = "eol" -> IF i = Len(s) \/ (i = Len(s) - 1 /\ s[Len(s)] = "\n")
                         THEN {i} ELSE {}
      [] re.t = "alt" -> UNION { ReEnds(re.alts[a], s, i, ic) : a \in DOMAIN re.alts }
      [] re.t = "seq" -> ReSeqEnds(re.parts, s, {i}, ic)

ReSeqEnds(parts, s, starts, ic) ==
    IF parts = << >> \/ starts = {} THEN starts
    ELSE ReSeqEnds(Tail(parts), s,
                   UNION { ReEnds(Head(parts), s, j, ic) : j \in starts }, ic)

\* re.search(pattern, s)
ReSearch(re, s, ic) == \E i \in 0..Len(s) : ReEnds(re, s, i, ic) # {}

\* re.match(pattern, s)
ReMatch(re, s, ic) == ReEnds(re, s, 0, ic) # {}

RECURSIVE WordsFrom(_)
\* w1\s+w2\s+...wn
WordsFrom(ws) ==
    IF Len(ws) = 1 THEN <<Head(ws)>>
    ELSE <<Head(ws), Spaces1>> \o WordsFrom(Tail(ws))

\* \bw1\s+w2...\b
Phrase(ws) == SeqOf(<<WB>> \o WordsFrom(ws) \o <<WB>>)

\* \b(a|b|...)\b
OneOf(ws) == SeqOf(<<WB, AltOf(ws), WB>>)

----------------------------------------------------------------------------
(* Phase 5: the commercial anchor rules (phase_5_reporting.py)             *)

L_WORDPRESS == Lit(<<"w","o","r","d","p","r","e","s","s">>)
L_HOSTING   == Lit(<<"h","o","s","t","i","n","g">>)
P_WP_HOSTING == Phrase(<<L_WORDPRESS, L_HOSTING>>)

\* A.*B|B.*A
EitherOrder(a, b) == AltOf(<< SeqOf(<<a, AnyStar, b>>), SeqOf(<<b, AnyStar, a>>) >>)

P_HIGH_TRAFFIC ==
    OneOf(<< SeqOf(<<Lit(<<"h","i","g","h">>), Cls("dash_sp", 0, 1), Lit(<<"t","r","a","f","f","i","c">>)>>),
             Lit(<<"e","n","t","e","r","p","r","i","s","e">>) >>)

Rule(kw, pattern, target_url) == [kw |-> kw, pattern |-> pattern, target_url |-> target_url]

COMMERCIAL_ANCHOR_RULES == <<
    Rule(<<"w","o","o","c","o","m","m","e","r","c","e"," ","h","o","s","t","i","n","g">>,
         Phrase(<<Lit(<<"w","o","o","c","o","m","m","e","r","c","e">>), L_HOSTING>>),
         <<"h","t","t","p","s",":","/","/","r","a","i","d","b","o","x","e","s",".","i","o","/","s","o","l","u","t","i","o","n","s","/","w","o","o","c","o","m","m","e","r","c","e","-","h","o","s","t","i","n","g","/">>),
    Rule(<<"g","r","e","e","n"," ","w","o","r","d","p","r","e","s","s"," ","h","o","s","t","i","n","g">>,
         Phrase(<< AltOf(<<Lit(<<"g","r","e","e","n">>), Lit(<<"g","r","&uuml;","n","e","s">>), Lit(<<"k","l","i","m","a","f","r","e","u","n","d","l","i","c","h","e","s">>),
                           Lit(<<"n","a","c","h","h","a","l","t","i","g","e","s">>)>>), L_WORDPRESS, L_HOSTING >>),
         <<"h","t","t","p","s",":","/","/","r","a","i","d","b","o","x","e","s",".","i","o","/","p","l","a","t","f","o","r","m","/","g","r","e","e","n","-","w","o","r","d","p","r","e","s","s","-","h","o","s","t","i","n","g","/">>),
    Rule(<<"h","i","g","h"," ","t","r","a","f","f","i","c"," ","w","o","r","d","p","r","e","s","s"," ","h","o","s","t","i","n","g">>,
         EitherOrder(P_HIGH_TRAFFIC, P_WP_HOSTING),
         <<"h","t","t","p","s",":","/","/","r","a","i","d","b","o","x","e","s",".","i","o","/","s","o","l","u","t","i","o","n","s","/","h","i","g","h","-","t","r","a","f","f","i","c","-","w","o","r","d","p","r","e","s","s","-","h","o","s","t","i","n","g","/">>),
    Rule(<<"m","a","n","a","g","e","d"," ","c","l","o","u","d"," ","h","o","s","t","i","n","g">>,
         Phrase(<<Lit(<<"m","a","n","a","g","e","d">>), Lit(<<"c","l","o","u","d">>), L_HOSTING>>),
         <<"h","t","t","p","s",":","/","/","r","a","i","d","b","o","x","e","s",".","i","o","/","s","o","l","u","t","i","o","n","s","/","w","o","r","d","p","r","e","s","s","-","m","a","n","a","g","e","d","-","c","l","o","u","d","-","h","o","s","t","i","n","g","/">>),
    Rule(<<"w","o","r","d","p","r","e","s","s"," ","s","u","p","p","o","r","t">>,
         AltOf(<< Phrase(<<L_WORDPRESS, Lit(<<"s","u","p","p","o","r","t">>)>>),
                  Phrase(<<Lit(<<"f","r","a","g","e","n">>), Lit(<<"i","m">>), L_WORDPRESS, Lit(<<"s","u","p","p","o","r","t">>)>>) >>),
         <<"h","t","t","p","s",":","/","/","r","a","i","d","b","o","x","e","s",".","i","o","/","p","l","a","t","f","o","r","m","/","w","o","r","d","p","r","e","s","s","-","s","u","p","p","o","r","t","/">>),
    Rule(<<"w","o","r","d","p","r","e","s","s"," ","s","e","c","u","r","i","t","y">>,
         AltOf(<< Phrase(<<L_WORDPRESS, AltOf(<<Lit(<<"s","e","c","u","r","i","t","y">>), Lit(<<"s","i","c","h","e","r","h","e","i","t">>)>>)>>),
                  SeqOf(<< WB, Lit(<<"s","i","c","h","e","r">>), AltOf(<<Lit(<<"e","s">>), Lit(<<"h","e","i","t">>)>>), WB,
                           AnyStar, WB, L_WORDPRESS, WB >>) >>),
         <<"h","t","t","p","s",":","/","/","r","a","i","d","b","o","x","e","s",".","i","o","/","p","l","a","t","f","o","r","m","/","w","o","r","d","p","r","e","s","s","-","s","e","c","u","r","i","t","y","/">>),
    Rule(<<"w","o","r","d","p","r","e","s","s"," ","p","e","r","f","o","r","m","a","n","c","e">>,
         AltOf(<< Phrase(<<L_WORDPRESS, Lit(<<"p","e","r","f","o","r","m","a","n","c","e">>)>>),
                  Phrase(<< SeqOf(<<Lit(<<"s","c","h","n","e","l","l">>), AltOf(<<Lit(<<"e","s">>), Lit(<<"e">>)>>)>>),
                            L_WORDPRESS, L_HOSTING >>) >>),
         <<"h","t","t","p","s",":","/","/","r","a","i","d","b","o","x","e","s",".","i","o","/","p","l","a","t","f","o","r","m","/","w","o","r","d","p","r","e","s","s","-","p","e","r","f","o","r","m","a","n","c","e","/">>),
    Rule(<<"w","o","r","d","p","r","e","s","s"," ","m","a","n","a","g","e","m","e","n","t">>,
         AltOf(<< Phrase(<<L_WORDPRESS, Lit(<<"m","a","n","a","g","e","m","e","n","t">>)>>),
                  Phrase(<< SeqOf(<<Lit(<<"w","e","b","s","i","t","e">>), Opt(Lit(<<"s">>))>>), Lit(<<"v","e","r","w","a","l","t","e","n">>) >>) >>),
         <<"h","t","t","p","s",":","/","/","r","a","i","d","b","o","x","e","s",".","i","o","/","p","l","a","t","f","o","r","m","/","w","o","r","d","p","r","e","s","s","-","m","a","n","a","g","e","m","e","n","t","/">>),
    Rule(<<"w","o","r","d","p","r","e","s","s"," ","m","i","g","r","a","t","i","o","n">>,
         AltOf(<< Phrase(<<L_WORDPRESS, Lit(<<"m","i","g","r","a","t","i","o","n">>)>>),
                  Phrase(<<L_WORDPRESS, Lit(<<"u","m","z","u","g">>)>>),
                  Phrase(<<Lit(<<"u","m","z","u","g","s","s","e","r","v","i","c","e">>)>>) >>),
         <<"h","t","t","p","s",":","/","/","r","a","i","d","b","o","x","e","s",".","i","o","/","f","r","e","e","-","w","o","r","d","p","r","e","s","s","-","m","i","g","r","a","t","i","o","n","/">>),
    Rule(<<"w","o","r","d","p","r","e","s","s"," ","h","o","s","t","i","n","g"," ","p","r","e","i","s","e">>,
         EitherOrder(P_WP_HOSTING,
                     OneOf(<<Lit(<<"p","r","e","i","s","e">>), Lit(<<"p","r","i","c","i","n","g">>), Lit(<<"t","a","r","i","f","e">>), Lit(<<"k","o","s","t","e","n">>)>>)),
         <<"h","t","t","p","s",":","/","/","r","a","i","d","b","o","x","e","s",".","i","o","/","w","o","r","d","p","r","e","s","s","-","h","o","s","t","i","n","g","-","p","r","i","c","i","n","g","/">>),
    Rule(<<"w","o","r","d","p","r","e","s","s"," ","s","p","e","e","d"," ","t","e","s","t">>,
         AltOf(<< Phrase(<<L_WORDPRESS, Lit(<<"s","p","e","e","d">>), Lit(<<"t","e","s","t">>)>>),
                  SeqOf(<< Phrase(<<Lit(<<"w","i","e">>), Lit(<<"s","c","h","n","e","l","l">>), Lit(<<"l","&auml;","d","t">>)>>),
                           AnyStar, WB, L_WORDPRESS, WB >>) >>),
         <<"h","t","t","p","s",":","/","/","r","a","i","d","b","o","x","e","s",".","i","o","/","w","o","r","d","p","r","e","s","s","-","s","p","e","e","d","-","t","e","s","t","/">>),
    Rule(<<"p","e","r","f","o","r","m","a","n","c","e"," ","t","e","s","t">>,
         AltOf(<< SeqOf(<<WB, Lit(<<"p","e","r","f","o","r","m","a","n","c","e">>), Cls("dash_sp", 0, Unbounded), Lit(<<"t","e","s","t">>), WB>>),
                  Phrase(<<Lit(<<"l","a","n","g","s","a","m","e">>), Lit(<<"w","e","b","s","i","t","e">>)>>),
                  Phrase(<<Lit(<<"s","l","o","w">>), Lit(<<"w","e","b","s","i","t","e">>)>>) >>),
         <<"h","t","t","p","s",":","/","/","r","a","i","d","b","o","x","e","s",".","i","o","/","p","e","r","f","o","r","m","a","n","c","e","-","t","e","s","t","/">>),
    Rule(<<"w","o","r","d","p","r","e","s","s"," ","h","o","s","t","i","n","g"," ","f","&uuml;","r"," ","a","g","e","n","t","u","r","e","n">>,
         EitherOrder(P_WP_HOSTING, OneOf(<<Lit(<<"a","g","e","n","t","u","r","e","n">>), Lit(<<"f","r","e","e","l","a","n","c","e","r">>)>>)),
         <<"h","t","t","p","s",":","/","/","r","a","i","d","b","o","x","e","s",".","i","o","/","c","u","s","t","o","m","e","r","s","/","w","e","b","s","i","t","e","-","c","r","e","a","t","o","r","s","/">>),
    Rule(<<"w","o","r","d","p","r","e","s","s"," ","h","o","s","t","i","n","g"," ","f","&uuml;","r"," ","u","n","t","e","r","n","e","h","m","e","n">>,
         EitherOrder(P_WP_HOSTING, OneOf(<<Lit(<<"u","n","t","e","r","n","e","h","m","e","n">>), Lit(<<"s","h","o","p","s">>)>>)),
         <<"h","t","t","p","s",":","/","/","r","a","i","d","b","o","x","e","s",".","i","o","/","c","u","s","t","o","m","e","r","s","/","w","e","b","s","i","t","e","-","o","w","n","e","r","s","/">>),
    Rule(<<"d","o","m","a","i","n","s">>,
         AltOf(<< SeqOf(<<WB, Lit(<<"d","o","m","a","i","n">>), Opt(Lit(<<"s">>)), WB>>),
                  Phrase(<<Lit(<<"d","o","m","a","i","n">>), Lit(<<"k","a","u","f","e","n">>)>>) >>),
         <<"h","t","t","p","s",":","/","/","r","a","i","d","b","o","x","e","s",".","i","o","/","d","o","m","a","i","n","s","/">>),
    Rule(<<"e","m","a","i","l"," ","h","o","s","t","i","n","g">>,
         Phrase(<< AltOf(<< SeqOf(<<Lit(<<"e">>), Opt(Lit(<<"-">>)), Lit(<<"m","a","i","l">>)>>), Lit(<<"e","m","a","i","l">>) >>),
                   L_HOSTING >>),
         <<"h","t","t","p","s",":","/","/","r","a","i","d","b","o","x","e","s",".","i","o","/","e","m","a","i","l","-","h","o","s","t","i","n","g","/">>),
    Rule(<<"a","f","f","i","l","i","a","t","e"," ","p","r","o","g","r","a","m","m">>,
         Phrase(<<Lit(<<"a","f","f","i","l","i","a","t","e">>), AltOf(<<Lit(<<"p","r","o","g","r","a","m","m">>), Lit(<<"p","r","o","g","r","a","m">>)>>)>>),
         <<"h","t","t","p","s",":","/","/","r","a","i","d","b","o","x","e","s",".","i","o","/","a","f","f","i","l","i","a","t","e","/">>),
    Rule(<<"i","o","n","o","s"," ","a","l","t","e","r","n","a","t","i","v","e">>,
         Phrase(<<Lit(<<"i","o","n","o","s">>), Lit(<<"a","l","t","e","r","n","a","t","i","v","e">>)>>),
         <<"h","t","t","p","s",":","/","/","r","a","i","d","b","o","x","e","s",".","i","o","/","i","o","n","o","s","-","a","l","t","e","r","n","a","t","i","v","e","/">>),
    Rule(<<"s","t","r","a","t","o"," ","a","l","t","e","r","n","a","t","i","v","e">>,
         Phrase(<<Lit(<<"s","t","r","a","t","o">>), Lit(<<"a","l","t","e","r","n","a","t","i","v","e">>)>>),
         <<"h","t","t","p","s",":","/","/","r","a","i","d","b","o","x","e","s",".","i","o","/","s","t","r","a","t","o","-","a","l","t","e","r","n","a","t","i","v","e","/">>),
    Rule(<<"m","a","n","a","g","e","d"," ","w","o","r","d","p","r","e","s","s"," ","h","o","s","t","i","n","g">>,
         Phrase(<<Lit(<<"m","a","n","a","g","e","d">>), L_WORDPRESS, L_HOSTING>>),
         <<"h","t","t","p","s",":","/","/","r","a","i","d","b","o","x","e","s",".","i","o","/","s","o","l","u","t","i","o","n","s","/","m","a","n","a","g","e","d","-","w","o","r","d","p","r","e","s","s","-","h","o","s","t","i","n","g","/">>),
    Rule(<<"w","o","r","d","p","r","e","s","s"," ","h","o","s","t","i","n","g">>,
         P_WP_HOSTING,
         <<"h","t","t","p","s",":","/","/","r","a","i","d","b","o","x","e","s",".","i","o","/","s","o","l","u","t","i","o","n","s","/","m","a","n","a","g","e","d","-","w","o","r","d","p","r","e","s","s","-","h","o","s","t","i","n","g","/">>),
    Rule(<<"b","r","a","n","d">>,
         SeqOf(<< BOL, Spaces0, Lit(<<"r","a","i","d","b","o","x","e","s">>),
                  Opt(AltOf(<<Lit(<<"&reg;">>), Lit(<<"&trade;">>)>>)),
                  Opt(Lit(<<".","i","o">>)), Spaces0, EOL >>),
         <<"h","t","t","p","s",":","/","/","r","a","i","d","b","o","x","e","s",".","i","o","/">>)
>>

DigitsRe(lo, hi) == Cls("digit", lo, hi)
DateSep == Cls("datesep", 1, 1)

_DATE_ONLY_PATTERNS == <<
    SeqOf(<<BOL, DigitsRe(1, 2), DateSep, DigitsRe(1, 2), DateSep, DigitsRe(2, 4), EOL>>),
    SeqOf(<<BOL, DigitsRe(4, 4), Lit(<<"-">>), DigitsRe(2, 2), Lit(<<"-">>), DigitsRe(2, 2), EOL>>),
    SeqOf(<<BOL, DigitsRe(4, 4), EOL>>)
>>

is_date_only_anchor(anchor) ==
    LET a == Strip(anchor)
    IN IF anchor = NaN \/ a = << >> THEN FALSE
       ELSE \E p \in DOMAIN _DATE_ONLY_PATTERNS : ReMatch(_DATE_ONLY_PATTERNS[p], a, FALSE)

LISTICLE_PATTERN ==
    SeqOf(<< BOL, Spaces0, DigitsRe(1, 3), Spaces1,
             AltOf(<<Lit(<<"b","e","s","t">>), Lit(<<"b","e","s","t","e">>), Lit(<<"t","o","p">>), Lit(<<"t","i","p","p","s">>), Lit(<<"t","i","p","s">>),
                     Lit(<<"g","r","&uuml;","n","d","e">>), Lit(<<"r","e","a","s","o","n","s">>), Lit(<<"m","a","&szlig;","n","a","h","m","e","n">>), Lit(<<"m","e","a","s","u","r","e","s">>),
                     Lit(<<"s","t","e","p","s">>), Lit(<<"s","c","h","r","i","t","t","e">>)>>), WB >>)

HEADLINE_PATTERN ==
    OneOf(<<Lit(<<"v","e","r","g","l","e","i","c","h">>), Lit(<<"t","e","s","t">>), Lit(<<"g","u","i","d","e">>), Lit(<<"a","n","l","e","i","t","u","n","g">>),
            Lit(<<"t","u","t","o","r","i","a","l">>), Lit(<<"c","h","e","c","k","l","i","s","t","e">>), Lit(<<"t","r","e","n","d","s">>), Lit(<<"l","i","s","t","e">>),
            Lit(<<"r","a","n","k","i","n","g">>)>>)

is_article_title_like_anchor(anchor) ==
    LET a    == Strip(anchor)
        a_lc == Lower(a)
    IN IF anchor = NaN \/ a = << >> THEN FALSE
       ELSE \/ ReMatch(LISTICLE_PATTERN, a_lc, FALSE)
            \/ (ReSearch(HEADLINE_PATTERN, a_lc, FALSE) /\ Len(a) >= 35)
            \/ Len(a) >= 90

RECURSIVE CollapseSpaces(_)
\* re.sub(r"\s+", " ", s)
CollapseSpaces(s) ==
    IF s = << >> THEN << >>
    ELSE IF IsSpace(Head(s)) THEN <<" ">> \o CollapseSpaces(LStrip(s))
    ELSE <<Head(s)>> \o CollapseSpaces(Tail(s))

\* norm: str(s or "") stripped, lower-cased, whitespace runs collapsed
norm(s) == CollapseSpaces(Lower(Strip(IF s = NaN THEN << >> ELSE s)))

is_blog_url(url) ==
    IF url = NaN \/ url = << >> THEN FALSE
    ELSE LET path == Lower(UrlParse(url).path)
         IN \/ path = <<"/","b","l","o","g">> \/ StartsWith(path, <<"/","b","l","o","g","/">>)
            \/ path = <<"/","e","n","/","b","l","o","g">> \/ StartsWith(path, <<"/","e","n","/","b","l","o","g","/">>)

source_is_en(url) ==
    IF url = NaN \/ url = << >> THEN FALSE
    ELSE LET path == Lower(UrlParse(url).path)
         IN StartsWith(path, <<"/","e","n","/">>) \/ path = <<"/","e","n">>

aligned_path_always_en(path, s_is_en) ==
    <<"/","e","n">> \o (IF StartsWith(path, <<"/">>) THEN path ELSE <<"/">> \o path)

\* the path of the suggested destination, in the language bucket of the source
aligned_path(path, s_is_en) ==
    IF s_is_en
    THEN IF ~StartsWith(Lower(path), <<"/","e","n","/">>) /\ Lower(path) # <<"/","e","n">>
         THEN <<"/","e","n">> \o (IF StartsWith(path, <<"/">>) THEN path ELSE <<"/">> \o path)
         ELSE path
    ELSE IF StartsWith(Lower(path), <<"/","e","n","/">>)
         THEN LET cut == SubSeq(path, 4, Len(path))
              IN IF StartsWith(cut, <<"/">>) THEN cut ELSE <<"/">> \o cut
         ELSE IF Lower(path) = <<"/","e","n">> THEN <<"/">>
         ELSE path

align_destination_language_never_en(target_url, source_url) ==
    IF target_url = NaN \/ target_url = << >> THEN target_url
    ELSE LET t == UrlParse(target_url)
         IN RStripSlash(GetUrl([t EXCEPT !.path = aligned_path(t.path, FALSE),
                                         !.query = << >>, !.fragment = << >>]))

align_destination_language(target_url, source_url) ==
    IF target_url = NaN \/ target_url = << >> THEN target_url
    ELSE LET t == UrlParse(target_url)
         IN RStripSlash(GetUrl([t EXCEPT !.path = aligned_path(t.path, source_is_en(source_url)),
                                         !.query = << >>, !.fragment = << >>]))

normalize_url_no_query(url) ==
    IF url = NaN THEN << >>
    ELSE RStripSlash(GetUrl([UrlParse(url) EXCEPT !.query = << >>, !.fragment = << >>]))

\* the leading words clean_anchor_for_matching removes, in the pattern's order
STOP_PREFIXES == << <<"z","u","m">>, <<"z","u","r">>, <<"z","u">>, <<"t","o">>, <<"f","o","r">>, <<"&uuml;","b","e","r">>, <<"a","b","o","u","t">> >>

\* re.sub(r"^(zum|zur|zu|to|for|ueber|about)\s+", "", norm(anchor))
clean_anchor_for_matching(anchor) ==
    LET a == norm(anchor)
        hits == { p \in DOMAIN STOP_PREFIXES :
                    /\ StartsWith(a, STOP_PREFIXES[p])
                    /\ Len(a) > Len(STOP_PREFIXES[p])
                    /\ IsSpace(a[Len(STOP_PREFIXES[p]) + 1]) }
    IN IF hits = {} THEN a
       ELSE LET p == CHOOSE q \in hits : \A r \in hits : q <= r
            IN LStrip(SubSeq(a, Len(STOP_PREFIXES[p]) + 1, Len(a)))

is_strong_match(anchor, keyword) ==
    LET a == clean_anchor_for_matching(anchor)
        k == norm(keyword)
    IN IF a = << >> \/ k = << >> THEN FALSE
       ELSE \/ a = k
            \/ StartsWith(a, k \o <<" ">>)
            \/ EndsWith(a, <<" ">> \o k)
            \/ (Contains(a, k) /\ WordCount(a) <= 6)

\* lines 350-351: the rule's pattern is found in the normalized anchor and the
\* anchor is a strong match of the rule's keyword
rule_matches(rule, anchor_lc, anchor) ==
    /\ ReSearch(rule.pattern, anchor_lc, TRUE)
    /\ is_strong_match(anchor, rule.kw)

matched_rule_index_last(anchor) ==
    LET anchor_lc == norm(anchor)
        hits == { r \in DOMAIN COMMERCIAL_ANCHOR_RULES :
                    rule_matches(COMMERCIAL_ANCHOR_RULES[r], anchor_lc, anchor) }
    IN IF hits = {} THEN 0
       ELSE CHOOSE r \in hits : \A q \in hits : q <= r

\* lines 345-353: the index of the first rule that matches, 0 when none does
matched_rule_index(anchor) ==
    LET anchor_lc == norm(anchor)
        hits == { r \in DOMAIN COMMERCIAL_ANCHOR_RULES :
                    rule_matches(COMMERCIAL_ANCHOR_RULES[r], anchor_lc, anchor) }
    IN IF hits = {} THEN 0
       ELSE CHOOSE r \in hits : \A q \in hits : r <= q

link_is_skipped_keep_headlines(anchor, dst) ==
    \/ anchor = << >>
    \/ is_date_only_anchor(anchor)
    \/ ~is_blog_url(dst)

\* lines 329-343: the link is not looked at
link_is_skipped(anchor, dst) ==
    \/ anchor = << >>
    \/ is_date_only_anchor(anchor)
    \/ is_article_title_like_anchor(anchor)
    \/ ~is_blog_url(dst)

suggestion_for_current_destination(link) ==
    LET src    == Strip(IF link.source = NaN THEN << >> ELSE link.source)
        dst    == Strip(IF link.dest = NaN THEN << >> ELSE link.dest)
        anchor == Strip(IF link.anchor = NaN THEN << >> ELSE link.anchor)
        r      == matched_rule_index(anchor)
    IN IF link_is_skipped(anchor, dst) THEN NoneRow
       ELSE IF r = 0 THEN NoneRow
       ELSE [page_to_edit |-> src, destination_page |-> dst, current_anchor |-> anchor,
             suggested_anchor |-> anchor, suggested_destination |-> dst,
             rule_triggered |-> <<"c","o","m","m","e","r","c","i","a","l","_","m","a","p","p","i","n","g",":"," ">> \o COMMERCIAL_ANCHOR_RULES[r].kw]

\* lines 324-371: the row the link adds to the report, NoneRow when it adds none
suggestion_for(link) ==
    LET src    == Strip(IF link.source = NaN THEN << >> ELSE link.source)
        dst    == Strip(IF link.dest = NaN THEN << >> ELSE link.dest)
        anchor == Strip(IF link.anchor = NaN THEN << >> ELSE link.anchor)
        r      == matched_rule_index(anchor)
        rule   == COMMERCIAL_ANCHOR_RULES[r]
        suggested == align_destination_language(rule.target_url, src)
    IN IF link_is_skipped(anchor, dst) THEN NoneRow
       ELSE IF r = 0 THEN NoneRow
       ELSE IF normalize_url_no_query(dst) = normalize_url_no_query(suggested) THEN NoneRow
       ELSE [page_to_edit |-> src, destination_page |-> dst, current_anchor |-> anchor,
             suggested_anchor |-> anchor, suggested_destination |-> suggested,
             rule_triggered |-> <<"c","o","m","m","e","r","c","i","a","l","_","m","a","p","p","i","n","g",":"," ">> \o rule.kw]

\* the columns drop_duplicates compares
dedupe_key(row) ==
    <<row.page_to_edit, row.destination_page, row.current_anchor, row.suggested_destination>>

RECURSIVE drop_duplicates(_)
\* DataFrame.drop_duplicates(subset=...): the first row of every key stays
drop_duplicates(rs) ==
    IF rs = << >> THEN << >>
    ELSE LET init == drop_duplicates(SubSeq(rs, 1, Len(rs) - 1))
             last == rs[Len(rs)]
         IN IF \E i \in DOMAIN init : dedupe_key(init[i]) = dedupe_key(last)
            THEN init ELSE Append(init, last)

\* build_anchor_optimization_report: one link of the loop
AnchorLinkStep ==
    /\ pc = "phase5"
    /\ li <= Len(raw_links_list)
    /\ LET row == suggestion_for(raw_links_list[li])
       IN rows' = IF row = NoneRow THEN rows ELSE Append(rows, row)
    /\ li' = li + 1
    /\ UNCHANGED <<pc, error, inputVars, audited_df, phase4Vars, anchor_report, actionable_df, keyVars>>

\* build_anchor_optimization_report: after the loop
AnchorReportDone ==
    /\ pc = "phase5"
    /\ li > Len(raw_links_list)
    /\ anchor_report' = drop_duplicates(rows)
    /\ pc' = "report_done"
    /\ UNCHANGED <<error, inputVars, audited_df, phase4Vars, rows, li, actionable_df, keyVars>>
----------------------------------------------------------------------------
(* The audit on bounded inputs                                             *)

MaxAuditPages == 2
MaxAuditLinks == 2

\* the sequences over S of length lo..hi
SeqsOf(S, lo, hi) == UNION {[1..k -> S] : k \in lo..hi}

U_SOLUTION == <<"/","s","o","l","u","t","i","o","n","s","/","x">>
U_POST     == <<"/","b","l","o","g","/","p","o","s","t","-","1">>

AuditColumns == {"url", "title", "h1", "meta_description", "importance",
                 "best_anchor_text", "priority_tier", "priority_score"}

\* main gives every page priority_score 0; other callers may give any score
AuditPageRecs ==
    [url : {U_SOLUTION, U_POST}, title : {<<"X"," ","H","o","s","t","i","n","g">>}, h1 : {<<"X">>},
     meta_description : {<< >>}, best_anchor_text : {NaN},
     priority_tier : {"A", "B", "C"}, priority_score : {0}]
    \cup
    [url : {U_POST}, title : {<<"X"," ","H","o","s","t","i","n","g">>}, h1 : {<<"X">>},
     meta_description : {<< >>}, best_anchor_text : {NaN},
     priority_tier : {"A"}, priority_score : {2}]

AuditLinkRecs ==
    [source : {U_POST}, dest : {U_SOLUTION, U_POST},
     anchor : {<<"c","l","i","c","k"," ","h","e","r","e">>, <<"X"," ","H","o","s","t","i","n","g">>}]

\* the matcher has not run
Phase4Idle ==
    /\ blog_df = << >>
    /\ traffic_col = "None"
    /\ existing_links = {}
    /\ target_vectors = << >>
    /\ page_embedding_cache = << >>
    /\ sentence_embedding_cache = << >>
    /\ model_vectors = << >>
    /\ encode_calls = << >>
    /\ ri = 1 /\ ti = 1 /\ bi = 1 /\ si = 1
    /\ sentences = << >>
    /\ source_traffic = 0
    /\ best_score = 0
    /\ opportunities = << >>

\* the anchor report has not run
Phase5Idle ==
    /\ li = 1
    /\ rows = << >>
    /\ anchor_report = << >>
    /\ actionable_df = << >>
    /\ url_arg = << >>
    /\ url_key = << >>

InitAudit ==
    /\ pc = "audit"
    /\ Phase4Idle
    /\ Phase5Idle
    /\ error = ""
    /\ audited_df = << >>
    /\ crawled_urls \in SUBSET {U_SOLUTION, U_POST}
    /\ \/ /\ meta_columns = AuditColumns
          /\ page_df \in SeqsOf(AuditPageRecs, 1, MaxAuditPages)
          /\ raw_links_list \in SeqsOf(AuditLinkRecs, 0, MaxAuditLinks)
       \/ /\ meta_columns = AuditColumns \ {"priority_score"}
          /\ page_df \in SeqsOf(AuditPageRecs, 1, 1)
          /\ raw_links_list = << >>

NextAudit == AuditInternalLinks

SpecAudit == InitAudit /\ [][NextAudit]_vars

\* the number of link records whose dest is url
IncomingCount(url) ==
    Cardinality({j \in DOMAIN raw_links_list : raw_links_list[j].dest = url})

\* some link record to url carries a generic anchor
IncomingGeneric(url) ==
    \E j \in DOMAIN raw_links_list :
        /\ raw_links_list[j].dest = url
        /\ is_generic_anchor(raw_links_list[j].anchor)

\* C1 as stated: for every input, the empty link list included, a tier-A page
\* whose url is not in crawled_urls has gap_status "CRITICAL: Orphan Page", and
\* a tier-C page with no incoming link is never "High: Under-Linked".
C1_OrphanAlways ==
    pc = "audited" =>
        \A i \in DOMAIN audited_df :
            /\ (audited_df[i].priority_tier = "A" /\ audited_df[i].url \notin crawled_urls)
                   => audited_df[i].gap_status = "CRITICAL: Orphan Page"
            /\ (audited_df[i].priority_tier = "C" /\ IncomingCount(audited_df[i].url) = 0)
                   => audited_df[i].gap_status # "High: Under-Linked"

\* C1 amended: when the link list is not empty, a tier-A page whose url is not
\* in crawled_urls has gap_status "CRITICAL: Orphan Page" whatever its
\* receiving_links and anchors; with an empty link list it has the status
\* "No internal links found"; and for every input a tier-C page with no
\* incoming link is never "High: Under-Linked".
C1_OrphanWhenLinked ==
    pc = "audited" =>
        \A i \in DOMAIN audited_df :
            /\ (audited_df[i].priority_tier = "A" /\ audited_df[i].url \notin crawled_urls)
                   => audited_df[i].gap_status =
                          IF raw_links_list # << >> THEN "CRITICAL: Orphan Page"
                          ELSE "No internal links found"
            /\ (audited_df[i].priority_tier = "C" /\ IncomingCount(audited_df[i].url) = 0)
                   => audited_df[i].gap_status # "High: Under-Linked"

\* C1 witness: an audited tier-A page outside crawled_urls that receives a link
\* with a generic anchor, beside a tier-C page without incoming links
C1_Witness ==
    /\ pc = "audited"
    /\ \E i \in DOMAIN audited_df :
          /\ audited_df[i].priority_tier = "A"
          /\ audited_df[i].url \notin crawled_urls
          /\ audited_df[i].receiving_links > 0
          /\ audited_df[i].has_generic_anchors
    /\ \E i \in DOMAIN audited_df :
          /\ audited_df[i].priority_tier = "C"
          /\ audited_df[i].receiving_links = 0

\* C8: with an empty link list every page has receiving_links 0,
\* link_equity_score 0, has_generic_anchors false, the status "No internal
\* links found", and is_orphan = (url not in crawled_urls).
C8_EmptyLinks ==
    (pc = "audited" /\ raw_links_list = << >>) =>
        /\ Len(audited_df) = Len(page_df)
        /\ \A i \in DOMAIN audited_df :
              /\ audited_df[i].receiving_links = 0
              /\ audited_df[i].link_equity_score = 0
              /\ audited_df[i].has_generic_anchors = FALSE
              /\ audited_df[i].gap_status = "No internal links found"
              /\ audited_df[i].is_orphan = (page_df[i].url \notin crawled_urls)

\* C8 witness: an audit of an empty link list over an orphan and a crawled page
C8_Witness ==
    /\ pc = "audited"
    /\ raw_links_list = << >>
    /\ \E i, k \in DOMAIN audited_df : audited_df[i].is_orphan /\ ~audited_df[k].is_orphan

\* the status the cascade of the claim gives page i of the input
CascadeStatus(i) ==
    LET url == page_df[i].url
        tier == page_df[i].priority_tier
    IN IF url \notin crawled_urls THEN "CRITICAL: Orphan Page"
       ELSE IF tier \in {"A", "B"} /\ IncomingCount(url) = 0 THEN "High: Under-Linked"
       ELSE IF tier \in {"A", "B"} /\ IncomingGeneric(url) THEN "Medium: Poor Anchors"
       ELSE "Healthy"

\* C9: with a non-empty link list every page's gap_status is the first matching
\* rule of orphan > (tier A/B, no incoming link) > (tier A/B, generic anchor) >
\* Healthy; a crawled tier-A page without incoming link is Under-Linked and a
\* crawled tier-A/B page with an incoming "click here" link has
\* has_generic_anchors and is Poor Anchors.
C9_Cascade ==
    (pc = "audited" /\ raw_links_list # << >>) =>
        \A i \in DOMAIN audited_df :
            /\ audited_df[i].gap_status = CascadeStatus(i)
            /\ (page_df[i].priority_tier = "A" /\ page_df[i].url \in crawled_urls
                    /\ IncomingCount(page_df[i].url) = 0)
                   => audited_df[i].gap_status = "High: Under-Linked"
            /\ (page_df[i].priority_tier \in {"A", "B"} /\ page_df[i].url \in crawled_urls
                    /\ \E j \in DOMAIN raw_links_list :
                           /\ raw_links_list[j].dest = page_df[i].url
                           /\ raw_links_list[j].anchor = <<"c","l","i","c","k"," ","h","e","r","e">>)
                   => /\ audited_df[i].has_generic_anchors
                      /\ audited_df[i].gap_status = "Medium: Poor Anchors"

\* C9 witness: one audit with a Poor Anchors tier-B page and an Under-Linked page
C9_Witness ==
    /\ pc = "audited"
    /\ raw_links_list # << >>
    /\ \E i, k \in DOMAIN audited_df :
          /\ audited_df[i].priority_tier = "B"
          /\ audited_df[i].gap_status = "Medium: Poor Anchors"
          /\ audited_df[k].gap_status = "High: Under-Linked"

\* C10: the audit keeps one record per input page, and receiving_links is the
\* number of link records whose dest is the page's url (each record counted,
\* 0 when there is none).
C10_ReceivingLinks ==
    pc = "audited" =>
        /\ Len(audited_df) = Len(page_df)
        /\ \A i \in DOMAIN audited_df :
              /\ audited_df[i].url = page_df[i].url
              /\ audited_df[i].receiving_links = IncomingCount(page_df[i].url)

\* C10 witness: two link records with the same (source, dest), both counted,
\* beside a page that is the dest of no link
C10_Witness ==
    /\ pc = "audited"
    /\ \E j, k \in DOMAIN raw_links_list :
          /\ j # k
          /\ raw_links_list[j].source = raw_links_list[k].source
          /\ raw_links_list[j].dest = raw_links_list[k].dest
          /\ \E i \in DOMAIN audited_df :
                /\ audited_df[i].url = raw_links_list[j].dest
                /\ audited_df[i].receiving_links = 2
    /\ \E i \in DOMAIN audited_df : audited_df[i].receiving_links = 0


----------------------------------------------------------------------------
(* The opportunity matcher on bounded inputs                               *)

MaxOppPages == 2
MaxOppBlogs == 2
MaxOppLinks == 1

T_EN_SLASH == <<"h","t","t","p","s",":","/","/","r",".","i","o","/","e","n","/","h","o","s","t","i","n","g","/">>
B_EN_A     == <<"h","t","t","p","s",":","/","/","r",".","i","o","/","e","n","/","b","l","o","g","/","a">>
B_EN_B     == <<"h","t","t","p","s",":","/","/","r",".","i","o","/","e","n","/","b","l","o","g","/","b">>

ANCHOR_WP     == <<"w","p"," ","h","o","s","t","i","n","g">>
ANCHOR_NA     == <<"N","/","A">>

\* one sentence of seven words, on the topic
CONTENT_ONE == <<"F","a","s","t"," ","w","o","r","d","p","r","e","s","s"," ","h","o","s","t","i","n","g"," ","f","o","r"," ","y","o","u","r"," ","o","n","l","i","n","e"," ","s","h","o","p",".">>

OppPage(url, tier, anchor) ==
    [url |-> url, title |-> <<"W","o","r","d","P","r","e","s","s"," ","H","o","s","t","i","n","g">>, h1 |-> << >>, meta_description |-> << >>,
     best_anchor_text |-> anchor, priority_tier |-> tier, priority_score |-> 0,
     is_orphan |-> FALSE, receiving_links |-> 0, link_equity_score |-> 0,
     has_generic_anchors |-> FALSE, gap_status |-> "No internal links found"]

OppPageRecs ==
    { OppPage(T_EN_SLASH, "A", ANCHOR_WP),
      OppPage(T_EN_SLASH, "A", ANCHOR_NA),
      OppPage(T_EN_SLASH, "A", NaN),
      OppPage(T_EN_SLASH, "B", ANCHOR_WP),
      OppPage(<<"h","t","t","p","s",":","/","/","r",".","i","o","/">>, "A", ANCHOR_WP) }

IntCell(n) == [kind |-> "int", val |-> n]

\* the rows of the blog file, before the loader: the on-topic sentence, the
\* same followed by an off-topic sentence of six words, and a content without
\* any sentence of six words; the traffic cell is a number, empty, or text
RawBlogRecs ==
    { [url |-> B_EN_A, content |-> CONTENT_ONE, traffic |-> IntCell(7)],
      [url |-> B_EN_B, content |-> CONTENT_ONE, traffic |-> [kind |-> "nan", val |-> 0]],
      [url |-> <<"h","t","t","p","s",":","/","/","r",".","i","o","/","d","e","/","b","l","o","g","/","a">>, content |-> CONTENT_ONE, traffic |-> IntCell(7)],
      [url |-> <<"h","t","t","p","s",":","/","/","r",".","i","o","/","e","n","/","h","o","s","t","i","n","g">>, content |-> CONTENT_ONE, traffic |-> IntCell(7)],
      [url |-> B_EN_A, content |-> <<"F","a","s","t"," ","w","o","r","d","p","r","e","s","s"," ","h","o","s","t","i","n","g"," ","f","o","r"," ","y","o","u","r"," ","o","n","l","i","n","e"," ","s","h","o","p","."," ","O","u","r"," ","c","a","t","s"," ","s","l","e","e","p"," ","a","l","l"," ","d","a","y"," ","l","o","n","g",".">>, traffic |-> [kind |-> "str", val |-> <<"a","b","c">>]],
      [url |-> B_EN_B, content |-> <<"T","o","o"," ","s","h","o","r","t",".">>, traffic |-> IntCell(7)] }

OppLinkRecs ==
    { [source |-> <<"h","t","t","p","s",":","/","/","r",".","i","o","/","e","n","/","b","l","o","g","/","a","/">>, dest |-> T_EN_SLASH, anchor |-> ANCHOR_WP],
      [source |-> << >>, dest |-> T_EN_SLASH, anchor |-> ANCHOR_WP] }

\* blog_df as load_blog_content leaves it: only non_branded_traffic is cleaned
LoadedBlogs(raw, col) ==
    [i \in DOMAIN raw |->
        [url |-> raw[i].url, content |-> raw[i].content,
         traffic |-> IF col = "non_branded_traffic"
                     THEN load_traffic_cell(raw[i].traffic) ELSE raw[i].traffic]]

OppColumns == {"url", "title", "h1", "meta_description", "importance",
               "priority_tier", "priority_score", "is_orphan", "receiving_links",
               "link_equity_score", "has_generic_anchors", "gap_status"}

\* the three families of inputs: the pipeline's own (the loader cleaned
\* non_branded_traffic), a blog DataFrame with another or no traffic column,
\* and page metadata without the best_anchor_text column
InitOpp ==
    /\ pc = "phase4"
    /\ Phase5Idle
    /\ error = ""
    /\ page_df = << >>
    /\ crawled_urls = {}
    /\ \E raw \in SeqsOf(RawBlogRecs, 1, MaxOppBlogs) :
          \/ /\ meta_columns = OppColumns \cup {"best_anchor_text"}
             /\ traffic_col = "non_branded_traffic"
             /\ audited_df \in SeqsOf(OppPageRecs, 1, MaxOppPages)
             /\ raw_links_list \in SeqsOf(OppLinkRecs, 0, MaxOppLinks)
             /\ blog_df = LoadedBlogs(raw, traffic_col)
          \/ /\ meta_columns = OppColumns \cup {"best_anchor_text"}
             /\ traffic_col \in {"traffic", "None"}
             /\ audited_df = <<OppPage(T_EN_SLASH, "A", ANCHOR_WP)>>
             /\ raw_links_list = << >>
             /\ blog_df = LoadedBlogs(raw, traffic_col)
          \/ /\ meta_columns = OppColumns
             /\ traffic_col = "non_branded_traffic"
             /\ audited_df \in SeqsOf(OppPageRecs, 1, 1)
             /\ raw_links_list = << >>
             /\ Len(raw) = 1
             /\ blog_df = LoadedBlogs(raw, traffic_col)
    /\ existing_links = {}
    /\ target_vectors = << >>
    /\ page_embedding_cache = << >>
    /\ sentence_embedding_cache = << >>
    /\ model_vectors = << >>
    /\ encode_calls = << >>
    /\ ri = 1 /\ ti = 1 /\ bi = 1 /\ si = 1
    /\ sentences = << >>
    /\ source_traffic = 0
    /\ best_score = 0
    /\ opportunities = << >>

NextOpp ==
    \/ RunPhase4Opportunities
    \/ EncodeTarget
    \/ StartTargets
    \/ TargetHead
    \/ PairFilter
    \/ PageEmbed
    \/ SentenceStep
    \/ Emit

SpecOpp == InitOpp /\ [][NextOpp]_vars

\* the urls the matcher is given
OppInputUrls ==
    {audited_df[i].url : i \in DOMAIN audited_df}
    \cup {blog_df[i].url : i \in DOMAIN blog_df}
    \cup {raw_links_list[i].source : i \in DOMAIN raw_links_list}
    \cup {raw_links_list[i].dest : i \in DOMAIN raw_links_list}

\* C2: no opportunity the matcher returns has source_url = target_url, and none
\* has a (source_url, target_url) pair that a raw link gives after normalization.
C2_NoSelfNoExisting ==
    pc = "done" =>
        \A k \in DOMAIN opportunities :
            /\ opportunities[k].source_url # opportunities[k].target_url
            /\ ~\E j \in DOMAIN raw_links_list :
                  /\ normalize_url(raw_links_list[j].source) = opportunities[k].source_url
                  /\ normalize_url(raw_links_list[j].dest) = opportunities[k].target_url
            /\ <<opportunities[k].source_url, opportunities[k].target_url>> \notin existing_links

\* C2 witness: a finished run that emitted an opportunity for a target while
\* another blog post was held back by an existing link to that target
C2_Witness ==
    /\ pc = "done"
    /\ \E k \in DOMAIN opportunities, b \in DOMAIN blog_df :
          /\ <<normalize_url(blog_df[b].url), opportunities[k].target_url>> \in existing_links
          /\ normalize_url(blog_df[b].url) # opportunities[k].source_url

\* C4 as stated: the embedding model is invoked at most once for any text.
C4_EncodeOnce ==
    \A text \in DOMAIN encode_calls : encode_calls[text] <= 1

\* the best_anchor_text cell of the last page row with this normalized url
AnchorCellOf(target_url) == audited_lookup_get(audited_df, target_url).best_anchor_text

\* C5 as stated: the run never raises on missing optional context; a target
\* without best_anchor_text (no column, or an empty or "N/A" value) yields no
\* opportunity, and a missing or unparseable traffic figure counts as 0.
C5_MissingContextNotFatal ==
    /\ pc # "raised"
    /\ \A k \in DOMAIN opportunities :
          /\ AnchorCellOf(opportunities[k].target_url) # NaN
          /\ Strip(AnchorCellOf(opportunities[k].target_url)) \notin {<< >>, ANCHOR_NA}
          /\ \A b \in DOMAIN blog_df :
                (/\ normalize_url(blog_df[b].url) = opportunities[k].source_url
                 /\ \A c \in DOMAIN blog_df :
                        normalize_url(blog_df[c].url) = opportunities[k].source_url => c = b
                 /\ (traffic_col = "None" \/ blog_df[b].traffic.kind # "int"))
                    => opportunities[k].source_non_branded_traffic = 0

\* C7: detect_language_from_url gives "de", "en" or "none" for every url it is
\* given, and source and target of every opportunity the matcher returns are
\* in the same bucket.
C7_LanguageBuckets ==
    /\ pc = "phase4" =>
          \A u \in OppInputUrls :
              /\ detect_language_from_url(u) \in {"de", "en", "none"}
              /\ detect_language_from_url(normalize_url(u)) \in {"de", "en", "none"}
    /\ pc = "done" =>
          \A k \in DOMAIN opportunities :
              detect_language_from_url(opportunities[k].source_url)
                  = detect_language_from_url(opportunities[k].target_url)

\* C7 witness: a finished run with an opportunity, one blog post of another
\* language bucket than its target, and a url of the bucket "none"
C7_Witness ==
    /\ pc = "done"
    /\ \E k \in DOMAIN opportunities, b \in DOMAIN blog_df :
          /\ detect_language_from_url(opportunities[k].target_url) = "en"
          /\ detect_language_from_url(normalize_url(blog_df[b].url)) = "de"

----------------------------------------------------------------------------
(* The anchor optimization report over small link lists                    *)

MaxAnchorLinks == 2

SRC_DE == <<"h","t","t","p","s",":","/","/","r","a","i","d","b","o","x","e","s",".","i","o","/","b","l","o","g","/","a">>
SRC_EN == <<"h","t","t","p","s",":","/","/","r","a","i","d","b","o","x","e","s",".","i","o","/","e","n","/","b","l","o","g","/","a">>

ANCHOR_WOO == <<"W","o","o","C","o","m","m","e","r","c","e"," ","H","o","s","t","i","n","g">>

\* an anchor of eight words that holds "wordpress hosting" in its middle
ANCHOR_LONG == <<"d","a","s"," ","b","e","s","t","e"," ","w","o","r","d","p","r","e","s","s"," ","h","o","s","t","i","n","g"," ","d","e","r"," ","w","e","l","t"," ","f","u","e","r"," ","d","i","c","h">>

\* the anchors of the links: commercial terms, the brand, a date, a headline,
\* a sentence, and a missing anchor
AnchorPool == {ANCHOR_WOO, ANCHOR_LONG,
               <<"g","r","e","e","n"," ","w","o","r","d","p","r","e","s","s"," ","h","o","s","t","i","n","g">>,
               <<"g","r","&uuml;","n","e","s"," ","w","o","r","d","p","r","e","s","s"," ","h","o","s","t","i","n","g">>,
               <<"W","o","r","d","P","r","e","s","s"," "," ","H","o","s","t","i","n","g">>,
               <<"R","a","i","d","b","o","x","e","s">>,
               <<"0","1",".","0","1",".","2","0","1","9">>,
               <<"1","3"," ","b","e","s","t","e"," ","W","o","r","d","P","r","e","s","s"," ","H","o","s","t","i","n","g"," ","A","n","b","i","e","t","e","r">>,
               <<"w","o","r","d","p","r","e","s","s"," ","h","o","s","t","i","n","g"," ","v","e","r","g","l","e","i","c","h"," ","a","b","c","d","e","f">>,
               <<"w","o","r","d","p","r","e","s","s"," ","h","o","s","t","i","n","g"," ","v","e","r","g","l","e","i","c","h"," ","a","b","c","d","e","f","g">>,
               NaN}

\* the anchors of the links found on the English post
AnchorPoolEn == {ANCHOR_WOO, <<"g","r","e","e","n"," ","w","o","r","d","p","r","e","s","s"," ","h","o","s","t","i","n","g">>}

\* the link records the crawl can deliver: links to a blog post under every
\* anchor, and a link that already points at a commercial page
AnchorLinkRecs ==
    [source : {SRC_DE}, dest : {<<"h","t","t","p","s",":","/","/","r","a","i","d","b","o","x","e","s",".","i","o","/","b","l","o","g","/","x","?","u","t","m","=","1">>}, anchor : AnchorPool]
        \cup [source : {SRC_EN}, dest : {<<"h","t","t","p","s",":","/","/","r","a","i","d","b","o","x","e","s",".","i","o","/","b","l","o","g","/","x","?","u","t","m","=","1">>}, anchor : AnchorPoolEn]
        \cup [source : {SRC_DE}, dest : {<<"h","t","t","p","s",":","/","/","r","a","i","d","b","o","x","e","s",".","i","o","/","s","o","l","u","t","i","o","n","s","/","w","o","o","c","o","m","m","e","r","c","e","-","h","o","s","t","i","n","g","/">>},
                anchor : {<<"g","r","e","e","n"," ","w","o","r","d","p","r","e","s","s"," ","h","o","s","t","i","n","g">>}]

InitAnchor ==
    /\ pc = "phase5"
    /\ Phase4Idle
    /\ Phase5Idle
    /\ error = ""
    /\ meta_columns = AuditColumns
    /\ page_df = << >>
    /\ audited_df = << >>
    /\ crawled_urls = {}
    /\ raw_links_list \in SeqsOf(AnchorLinkRecs, 0, MaxAnchorLinks)

NextAnchor ==
    \/ AnchorLinkStep
    \/ AnchorReportDone

SpecAnchor == InitAnchor /\ [][NextAnchor]_vars

\* the rules that come before the generic "wordpress hosting" rule
GenericRule ==
    CHOOSE r \in DOMAIN COMMERCIAL_ANCHOR_RULES :
        COMMERCIAL_ANCHOR_RULES[r].kw = <<"w","o","r","d","p","r","e","s","s"," ","h","o","s","t","i","n","g">>

SpecificPatternsMatching(anchor) ==
    { r \in 1..(GenericRule - 1) :
        ReSearch(COMMERCIAL_ANCHOR_RULES[r].pattern, norm(anchor), TRUE) }

\* C3: a suggestion whose anchor matches the pattern of a specific rule and
\* the pattern of the generic "wordpress hosting" rule carries the destination
\* and the rule_triggered of a specific rule, never those of the generic rule
C3_SpecificRuleWins ==
    pc = "report_done" =>
        \A k \in DOMAIN anchor_report :
            LET row == anchor_report[k]
                S   == SpecificPatternsMatching(row.current_anchor)
            IN (/\ S # {}
                /\ ReSearch(COMMERCIAL_ANCHOR_RULES[GenericRule].pattern,
                            norm(row.current_anchor), TRUE))
               => \E r \in S :
                    /\ row.rule_triggered =
                         <<"c","o","m","m","e","r","c","i","a","l","_","m","a","p","p","i","n","g",":"," ">> \o COMMERCIAL_ANCHOR_RULES[r].kw
                    /\ row.suggested_destination =
                         align_destination_language(COMMERCIAL_ANCHOR_RULES[r].target_url,
                                                    row.page_to_edit)

\* the link of the scenario: anchor "WooCommerce Hosting", destination under /blog/
IsWooBlogLink(link) ==
    /\ link.anchor = ANCHOR_WOO
    /\ StartsWith(UrlParse(link.dest).path, <<"/","b","l","o","g","/">>)

SourceUnderEn(link) == StartsWith(UrlParse(link.source).path, <<"/","e","n","/">>)

\* every scenario link has its row in the report, and every row of the link
\* carries destination de (source outside /en/) or en (source under /en/)
WooRowsCarry(de, en) ==
    \A i \in DOMAIN raw_links_list :
        LET link == raw_links_list[i]
            mine == { k \in DOMAIN anchor_report :
                        /\ anchor_report[k].page_to_edit = link.source
                        /\ anchor_report[k].destination_page = link.dest
                        /\ anchor_report[k].current_anchor = link.anchor }
        IN IsWooBlogLink(link) =>
             /\ mine # {}
             /\ \A k \in mine :
                    anchor_report[k].suggested_destination =
                        IF SourceUnderEn(link) THEN en ELSE de

\* C6 as stated: for a link with anchor "WooCommerce Hosting" whose destination
\* path starts with /blog/ the suggested destination is exactly
\* https://raidboxes.io/solutions/woocommerce-hosting/ , or
\* https://raidboxes.io/en/solutions/woocommerce-hosting/ for a source under /en/
C6_WooCommerceDestination ==
    pc = "report_done" =>
        WooRowsCarry(<<"h","t","t","p","s",":","/","/","r","a","i","d","b","o","x","e","s",".","i","o","/","s","o","l","u","t","i","o","n","s","/","w","o","o","c","o","m","m","e","r","c","e","-","h","o","s","t","i","n","g","/">>,
                     <<"h","t","t","p","s",":","/","/","r","a","i","d","b","o","x","e","s",".","i","o","/","e","n","/","s","o","l","u","t","i","o","n","s","/","w","o","o","c","o","m","m","e","r","c","e","-","h","o","s","t","i","n","g","/">>)

\* C6 amended: the suggested destination is the rule's target without its
\* trailing slash, https://raidboxes.io/solutions/woocommerce-hosting , or
\* https://raidboxes.io/en/solutions/woocommerce-hosting for a source under /en/
C6_WooCommerceDestinationNoSlash ==
    pc = "report_done" =>
        WooRowsCarry(<<"h","t","t","p","s",":","/","/","r","a","i","d","b","o","x","e","s",".","i","o","/","s","o","l","u","t","i","o","n","s","/","w","o","o","c","o","m","m","e","r","c","e","-","h","o","s","t","i","n","g">>,
                     <<"h","t","t","p","s",":","/","/","r","a","i","d","b","o","x","e","s",".","i","o","/","e","n","/","s","o","l","u","t","i","o","n","s","/","w","o","o","c","o","m","m","e","r","c","e","-","h","o","s","t","i","n","g">>)

\* a report with the scenario's row for a source under /en/ and for one outside
C6_Witness ==
    /\ pc = "report_done"
    /\ \E k \in DOMAIN anchor_report :
          /\ anchor_report[k].current_anchor = ANCHOR_WOO
          /\ anchor_report[k].page_to_edit = SRC_EN
    /\ \E k \in DOMAIN anchor_report :
          /\ anchor_report[k].current_anchor = ANCHOR_WOO
          /\ anchor_report[k].page_to_edit = SRC_DE

----------------------------------------------------------------------------
(* The anchor report: rule order, language, no-op rewrites, pre-filters    *)

\* rule r qualifies for the anchor: the anchor is a strong match of its
\* keyword and its regex matches the normalized anchor
Qualifies(r, anchor) ==
    /\ is_strong_match(anchor, COMMERCIAL_ANCHOR_RULES[r].kw)
    /\ ReSearch(COMMERCIAL_ANCHOR_RULES[r].pattern, norm(anchor), TRUE)

\* the rows of the report that come from the link
RowsOfLink(link) ==
    { k \in DOMAIN anchor_report :
        /\ anchor_report[k].page_to_edit = Strip(link.source)
        /\ anchor_report[k].destination_page = Strip(link.dest)
        /\ link.anchor # NaN
        /\ anchor_report[k].current_anchor = Strip(link.anchor) }

\* the anchor cell as the loop reads it: a missing anchor is the empty string
AnchorText(link) == IF link.anchor = NaN THEN << >> ELSE Strip(link.anchor)

\* C11: the rule of every suggestion is the first rule, in the fixed order,
\* whose regex matches the normalized anchor and whose keyword the anchor
\* strongly matches; no later rule is chosen, and a link for which no rule
\* qualifies has no suggestion
C11_FirstQualifyingRule ==
    pc = "report_done" =>
        /\ \A k \in DOMAIN anchor_report :
              \E r \in DOMAIN COMMERCIAL_ANCHOR_RULES :
                 /\ Qualifies(r, anchor_report[k].current_anchor)
                 /\ \A q \in 1..(r - 1) : ~Qualifies(q, anchor_report[k].current_anchor)
                 /\ anchor_report[k].rule_triggered =
                       <<"c","o","m","m","e","r","c","i","a","l","_","m","a","p","p","i","n","g",":"," ">> \o COMMERCIAL_ANCHOR_RULES[r].kw
        /\ \A i \in DOMAIN raw_links_list :
              (\A r \in DOMAIN COMMERCIAL_ANCHOR_RULES :
                   ~Qualifies(r, AnchorText(raw_links_list[i])))
              => RowsOfLink(raw_links_list[i]) = {}

\* a report with a suggestion whose anchor qualifies for two rules, made from
\* links that include one to a blog post whose anchor matches a pattern and
\* qualifies for no rule
C11_Witness ==
    /\ pc = "report_done"
    /\ \E k \in DOMAIN anchor_report :
          \E r, q \in DOMAIN COMMERCIAL_ANCHOR_RULES :
             /\ r < q
             /\ Qualifies(r, anchor_report[k].current_anchor)
             /\ Qualifies(q, anchor_report[k].current_anchor)
    /\ \E i \in DOMAIN raw_links_list :
          /\ raw_links_list[i].anchor = ANCHOR_LONG
          /\ is_blog_url(raw_links_list[i].dest)
          /\ \E r \in DOMAIN COMMERCIAL_ANCHOR_RULES :
                ReSearch(COMMERCIAL_ANCHOR_RULES[r].pattern, norm(ANCHOR_LONG), TRUE)
          /\ \A r \in DOMAIN COMMERCIAL_ANCHOR_RULES : ~Qualifies(r, ANCHOR_LONG)

\* the path of a url carries the en prefix
HasEnPrefix(url) ==
    LET path == Lower(UrlParse(url).path)
    IN path = <<"/","e","n">> \/ StartsWith(path, <<"/","e","n","/">>)

\* C12: the destination of every suggestion is in the language bucket of the
\* link's source: for a source in the en bucket its path starts with /en/,
\* for any other source its path carries no en prefix
C12_DestinationInSourceBucket ==
    pc = "report_done" =>
        \A k \in DOMAIN anchor_report :
            LET row == anchor_report[k]
            IN IF detect_language_from_url(row.page_to_edit) = "en"
               THEN StartsWith(UrlParse(row.suggested_destination).path, <<"/","e","n","/">>)
               ELSE ~HasEnPrefix(row.suggested_destination)

\* a report with a suggestion for a source in the en bucket and one for a
\* source outside it
C12_Witness ==
    /\ pc = "report_done"
    /\ \E k \in DOMAIN anchor_report :
          detect_language_from_url(anchor_report[k].page_to_edit) = "en"
    /\ \E k \in DOMAIN anchor_report :
          detect_language_from_url(anchor_report[k].page_to_edit) = "none"

\* C13: for every suggestion of the report, the suggested destination and the
\* link's current destination differ after normalize_url_no_query dropped
\* query, fragment and trailing slashes
C13_NoNoOpRewrite ==
    pc = "report_done" =>
        \A k \in DOMAIN anchor_report :
            normalize_url_no_query(anchor_report[k].suggested_destination)
                # normalize_url_no_query(anchor_report[k].destination_page)

\* a report with a suggestion for a link whose current destination carries a
\* query string
C13_Witness ==
    /\ pc = "report_done"
    /\ \E k \in DOMAIN anchor_report :
          /\ UrlParse(anchor_report[k].destination_page).query # << >>
          /\ normalize_url_no_query(anchor_report[k].destination_page)
                # anchor_report[k].destination_page

\* the anchor looks like a headline or a listicle: a number and a listicle
\* word at its start, a headline word in 35 characters or more, or 90
\* characters or more
HeadlineLike(anchor) ==
    \/ ReMatch(LISTICLE_PATTERN, Lower(anchor), FALSE)
    \/ (ReSearch(HEADLINE_PATTERN, Lower(anchor), FALSE) /\ Len(anchor) >= 35)
    \/ Len(anchor) >= 90

\* the four tests a link has to pass before the rules are tried
PassesPreFilters(anchor, dst) ==
    /\ anchor # << >>
    /\ ~is_date_only_anchor(anchor)
    /\ ~HeadlineLike(anchor)
    /\ is_blog_url(dst)

\* C14: every suggestion comes from a link whose anchor is non-empty, is no
\* date, is not headline-like and whose current destination is a blog URL,
\* and a link that fails one of the four tests has no suggestion
C14_PreFilters ==
    pc = "report_done" =>
        /\ \A k \in DOMAIN anchor_report :
              PassesPreFilters(anchor_report[k].current_anchor,
                               anchor_report[k].destination_page)
        /\ \A i \in DOMAIN raw_links_list :
              ~PassesPreFilters(AnchorText(raw_links_list[i]), Strip(raw_links_list[i].dest))
              => RowsOfLink(raw_links_list[i]) = {}

\* a report with a suggestion for an anchor that carries a headline word in
\* 34 characters, made from links that include a link to a page outside the
\* blog whose anchor qualifies for a rule with another target
C14_Witness ==
    /\ pc = "report_done"
    /\ \E k \in DOMAIN anchor_report :
          /\ ReSearch(HEADLINE_PATTERN, Lower(anchor_report[k].current_anchor), FALSE)
          /\ Len(anchor_report[k].current_anchor) = 34
    /\ \E i \in DOMAIN raw_links_list :
          /\ ~is_blog_url(raw_links_list[i].dest)
          /\ raw_links_list[i].anchor # NaN
          /\ matched_rule_index(raw_links_list[i].anchor) # 0
          /\ normalize_url_no_query(COMMERCIAL_ANCHOR_RULES[matched_rule_index(raw_links_list[i].anchor)].target_url)
                # normalize_url_no_query(raw_links_list[i].dest)

\* the last rule of the list, the brand-only rule
BrandRule == COMMERCIAL_ANCHOR_RULES[Len(COMMERCIAL_ANCHOR_RULES)]

\* the anchor is just the brand name and the pattern of no earlier rule is
\* found in it
BrandOnlyAnchor(anchor) ==
    /\ ReSearch(BrandRule.pattern, norm(anchor), TRUE)
    /\ \A r \in 1..(Len(COMMERCIAL_ANCHOR_RULES) - 1) :
          ~ReSearch(COMMERCIAL_ANCHOR_RULES[r].pattern, norm(anchor), TRUE)

\* C17: a link to a blog URL whose anchor is just the brand name has a
\* suggestion of the brand rule to the homepage, aligned to the language of
\* the source
C17_BrandToHomepage ==
    pc = "report_done" =>
        \A i \in DOMAIN raw_links_list :
            (/\ is_blog_url(Strip(raw_links_list[i].dest))
             /\ BrandOnlyAnchor(AnchorText(raw_links_list[i])))
            => \E k \in RowsOfLink(raw_links_list[i]) :
                  /\ anchor_report[k].suggested_destination =
                        align_destination_language(BrandRule.target_url, anchor_report[k].page_to_edit)
                  /\ anchor_report[k].rule_triggered = <<"c","o","m","m","e","r","c","i","a","l","_","m","a","p","p","i","n","g",":"," ","b","r","a","n","d">>
----------------------------------------------------------------------------
(* The opportunity matcher: targets, thresholds, the url key               *)

\* the page rows whose normalized url is the target of the opportunity
PagesOf(target_url) ==
    { i \in DOMAIN audited_df : normalize_url(audited_df[i].url) = target_url }

\* the page row has a recommended anchor: the cell is filled and is not the
\* 'N/A' sentinel
HasRecommendedAnchor(row) ==
    /\ row.best_anchor_text # NaN
    /\ Strip(row.best_anchor_text) # << >>
    /\ Strip(row.best_anchor_text) # ANCHOR_NA

\* C15: the target of every opportunity is a page of tier A with a filled
\* best_anchor_text other than 'N/A' and a url that is not homepage-like, and
\* the suggested anchor is the best_anchor_text of that page
C15_TargetsAreTierAWithAnchor ==
    pc = "done" =>
        \A k \in DOMAIN opportunities :
            \E i \in PagesOf(opportunities[k].target_url) :
               /\ audited_df[i].priority_tier = "A"
               /\ HasRecommendedAnchor(audited_df[i])
               /\ ~is_homepage(opportunities[k].target_url)
               /\ opportunities[k].suggested_anchor = Strip(audited_df[i].best_anchor_text)

\* the vectors the model can have for the texts: what it answered for the
\* texts it was asked about, and any vector for the others
Completions(memo, texts) ==
    { m \in [texts -> Vectors] : \A t \in texts \cap DOMAIN memo : m[t] = memo[t] }

\* the largest number of a non-empty set
SetMax(S) == CHOOSE x \in S : \A y \in S : y <= x

\* the similarities of the sentences of at least 6 words that reach the
\* sentence floor and contain a topic token of the target
QualifyingSims(m, sents, tv, tokens) ==
    { cosine_similarity(m[sents[j]], tv) : j \in
        { i \in DOMAIN sents :
            /\ WordCount(sents[i]) >= MIN_SENTENCE_WORDS
            /\ cosine_similarity(m[sents[i]], tv) >= SENTENCE_SIMILARITY_FLOOR
            /\ \E tok \in tokens : Contains(Lower(sents[i]), tok) } }

\* C16: when the matcher is done with a pair that passed the url, language
\* and content filters, it has emitted an opportunity if and only if the
\* similarity of the post's content to the target is at least the page floor
\* and a sentence of at least 6 words reaches the sentence floor and contains
\* a topic token; the confidence is the largest similarity of those sentences
C16_EmitIffThresholds ==
    [][ (pc \in {"page", "emit"} /\ pc' # "sentence") =>
          LET content == Str(blog_df[bi].content)
              sents   == split_into_sentences(content)
              tv      == target_vectors[ti].val
              tokens  == build_topic_tokens(audited_lookup_get(audited_df, target_vectors[ti].key))
              emitted == Len(opportunities') = Len(opportunities) + 1
          IN \A m \in Completions(model_vectors', {content} \cup {sents[j] : j \in DOMAIN sents}) :
                /\ emitted <=> (/\ cosine_similarity(m[content], tv) >= PAGE_SIMILARITY_FLOOR
                                /\ QualifyingSims(m, sents, tv, tokens) # {})
                /\ emitted => 10 * opportunities'[Len(opportunities')].confidence
                                 = SetMax(QualifyingSims(m, sents, tv, tokens))
      ]_vars

----------------------------------------------------------------------------
(* normalize_url on bounded strings                                        *)

MaxUrlLen == 4

\* the characters of the arguments: a letter, the slash, a blank
UrlChars == {"a", "/", " "}

InitNormalize ==
    /\ pc = "normalize"
    /\ Phase4Idle
    /\ li = 1 /\ rows = << >> /\ anchor_report = << >> /\ actionable_df = << >>
    /\ error = ""
    /\ meta_columns = {}
    /\ page_df = << >>
    /\ audited_df = << >>
    /\ crawled_urls = {}
    /\ raw_links_list = << >>
    /\ url_arg \in SeqsOf(UrlChars, 0, MaxUrlLen)
    /\ url_key = << >>

\* a call of normalize_url
NormalizeUrl ==
    /\ pc = "normalize"
    /\ url_key' = normalize_url(url_arg)
    /\ pc' = "normalized"
    /\ UNCHANGED <<error, inputVars, audited_df, phase4Vars, li, rows, anchor_report,
                   actionable_df, url_arg>>

\* a call of normalize_url on the key a call returned
NormalizeKey ==
    /\ pc = "normalized"
    /\ url_arg' = url_key
    /\ url_key' = normalize_url(url_key)
    /\ pc' = "renormalized"
    /\ UNCHANGED <<error, inputVars, audited_df, phase4Vars, li, rows, anchor_report,
                   actionable_df>>

NextNormalize ==
    \/ NormalizeUrl
    \/ NormalizeKey

SpecNormalize == InitNormalize /\ [][NextNormalize]_vars

\* C18: normalize_url gives the same string for a key it returned:
\* normalize_url(normalize_url(u)) = normalize_url(u) for every string u
C18_NormalizeIdempotent ==
    /\ pc = "normalized" => normalize_url(url_key) = url_key
    /\ pc = "renormalized" => url_key = url_arg

----------------------------------------------------------------------------
(* main: the pipeline from the loaded inputs to the report                 *)

\* the value of a cell that Series.map found no key for
NoPriority == "float:nan"

\* the row of meta_df after main added priority_tier and priority_score
PreparedRow(row) ==
    [url |-> row.url, title |-> row.title, h1 |-> row.h1,
     meta_description |-> row.meta_description,
     best_anchor_text |-> row.best_anchor_text,
     priority_tier |-> row.importance, priority_score |-> 0]

main_crawled_urls_empty(meta_df) == {}

\* set(meta_df["url"])
main_crawled_urls(meta_df) == {meta_df[i].url : i \in DOMAIN meta_df}

\* main, from the loaded inputs up to the call of the audit
MainPrepare ==
    /\ pc = "main"
    /\ page_df' = [i \in DOMAIN page_df |-> PreparedRow(page_df[i])]
    /\ meta_columns' = meta_columns \cup {"priority_tier", "priority_score"}
    /\ crawled_urls' = main_crawled_urls(page_df)
    /\ pc' = "audit"
    /\ UNCHANGED <<error, raw_links_list, audited_df, phase4Vars, phase5Vars>>

\* main calls run_phase_4_opportunities with the audited pages
MainCallPhase4 ==
    /\ pc = "audited"
    /\ pc' = "phase4"
    /\ UNCHANGED <<error, inputVars, audited_df, phase4Vars, phase5Vars>>

\* main calls export_internal_linking_report, which builds the anchor report first
ExportReport ==
    /\ pc = "done"
    /\ pc' = "phase5"
    /\ UNCHANGED <<error, inputVars, audited_df, phase4Vars, phase5Vars>>

\* priority_map.get(url): the tier of the last audited row with this url
priority_map_get(df, url) ==
    IF \E i \in DOMAIN df : df[i].url = url
    THEN df[CHOOSE i \in DOMAIN df :
               /\ df[i].url = url
               /\ \A k \in DOMAIN df : df[k].url = url => k <= i].priority_tier
    ELSE NoPriority

\* the place of a tier in the ascending sort, a missing tier last
TierRank(tier) ==
    IF tier = "A" THEN 1 ELSE IF tier = "B" THEN 2 ELSE IF tier = "C" THEN 3 ELSE 4

\* row a is sorted before row b: target_priority ascending, then
\* source_non_branded_traffic descending
SortsBefore(a, b) ==
    \/ TierRank(a.target_priority) < TierRank(b.target_priority)
    \/ /\ TierRank(a.target_priority) = TierRank(b.target_priority)
       /\ a.source_non_branded_traffic > b.source_non_branded_traffic

\* the sorted rows with one more row, behind the rows it does not sort before
InsertRow(sorted, row) ==
    LET k == Cardinality({i \in DOMAIN sorted : ~SortsBefore(row, sorted[i])})
    IN SubSeq(sorted, 1, k) \o <<row>> \o SubSeq(sorted, k + 1, Len(sorted))

RECURSIVE sort_values(_)
\* DataFrame.sort_values(by=[target_priority, source_non_branded_traffic],
\* ascending=[True, False])
sort_values(df) ==
    IF df = << >> THEN << >>
    ELSE InsertRow(sort_values(SubSeq(df, 1, Len(df) - 1)), df[Len(df)])

build_actionable_opportunities(opps, df) ==
    sort_values([k \in DOMAIN opps |->
        [target_url |-> opps[k].target_url,
         target_priority |-> priority_map_get(df, opps[k].target_url),
         source_url |-> opps[k].source_url,
         suggested_anchor |-> opps[k].suggested_anchor,
         source_non_branded_traffic |-> opps[k].source_non_branded_traffic]])

\* export_internal_linking_report, after the anchor report
BuildActionableOpportunities ==
    /\ pc = "report_done"
    /\ actionable_df' = build_actionable_opportunities(opportunities, audited_df)
    /\ pc' = "exported"
    /\ UNCHANGED <<error, inputVars, audited_df, phase4Vars, li, rows, anchor_report, keyVars>>

----------------------------------------------------------------------------
(* The pipeline on bounded inputs                                          *)

MaxPipePages == 2
MaxPipeBlogs == 1
MaxPipeLinks == 1

\* a row of the metadata file as load_page_metadata returns it
PipePage(url, tier) ==
    [url |-> url, title |-> <<"W","o","r","d","P","r","e","s","s"," ","H","o","s","t","i","n","g">>, h1 |-> << >>, meta_description |-> << >>,
     best_anchor_text |-> ANCHOR_WP, importance |-> tier]

\* pages whose url is written with and without the trailing slash
PipePageRecs ==
    { PipePage(T_EN_SLASH, "A"),
      PipePage(<<"h","t","t","p","s",":","/","/","r",".","i","o","/","e","n","/","h","o","s","t","i","n","g">>, "A"),
      PipePage(<<"h","t","t","p","s",":","/","/","r",".","i","o","/","e","n","/","p","l","a","n","s">>, "A"),
      PipePage(T_EN_SLASH, "B") }

PipeBlogRecs ==
    { [url |-> B_EN_A, content |-> CONTENT_ONE, traffic |-> IntCell(7)],
      [url |-> B_EN_B, content |-> CONTENT_ONE, traffic |-> [kind |-> "nan", val |-> 0]] }

PipeLinkRecs ==
    { [source |-> B_EN_A, dest |-> T_EN_SLASH, anchor |-> ANCHOR_WP] }

Init ==
    /\ pc = "main"
    /\ Phase5Idle
    /\ error = ""
    /\ meta_columns = {"url", "title", "h1", "meta_description", "importance", "best_anchor_text"}
    /\ page_df \in SeqsOf(PipePageRecs, 1, MaxPipePages)
    /\ crawled_urls = {}
    /\ raw_links_list \in SeqsOf(PipeLinkRecs, 0, MaxPipeLinks)
    /\ audited_df = << >>
    /\ traffic_col = "non_branded_traffic"
    /\ \E raw \in SeqsOf(PipeBlogRecs, 1, MaxPipeBlogs) : blog_df = LoadedBlogs(raw, traffic_col)
    /\ existing_links = {}
    /\ target_vectors = << >>
    /\ page_embedding_cache = << >>
    /\ sentence_embedding_cache = << >>
    /\ model_vectors = << >>
    /\ encode_calls = << >>
    /\ ri = 1 /\ ti = 1 /\ bi = 1 /\ si = 1
    /\ sentences = << >>
    /\ source_traffic = 0
    /\ best_score = 0
    /\ opportunities = << >>

Next ==
    \/ MainPrepare
    \/ AuditInternalLinks
    \/ MainCallPhase4
    \/ RunPhase4Opportunities
    \/ EncodeTarget
    \/ StartTargets
    \/ TargetHead
    \/ PairFilter
    \/ PageEmbed
    \/ SentenceStep
    \/ Emit
    \/ ExportReport
    \/ AnchorLinkStep
    \/ AnchorReportDone
    \/ BuildActionableOpportunities

Spec == Init /\ [][Next]_vars

\* C19: every row of the actionable opportunities sheet has target_priority
\* "A", the tier of the page that produced the opportunity
C19_TargetPriorityA ==
    pc = "exported" =>
        \A k \in DOMAIN actionable_df : actionable_df[k].target_priority = "A"

\* C20: in the pipeline crawled_urls is the set of the pages' urls, and after
\* the audit no page is an orphan and no gap_status is 'CRITICAL: Orphan Page'
C20_NoOrphans ==
    /\ pc # "main" => crawled_urls = {page_df[i].url : i \in DOMAIN page_df}
    /\ \A i \in DOMAIN audited_df :
          /\ ~audited_df[i].is_orphan
          /\ audited_df[i].gap_status # "CRITICAL: Orphan Page"

\* the audit of the pipeline has run on a link list that is not empty, over
\* pages that include one no link points to
C20_Witness ==
    /\ pc = "audited"
    /\ raw_links_list # << >>
    /\ \E i \in DOMAIN audited_df :
          /\ audited_df[i].receiving_links = 0
          /\ audited_df[i].gap_status = "High: Under-Linked"
====
